---------------------------- MODULE Spec2Model ----------------------------
(***************************************************************************)
(* Model of the perf argument handling (PerfArgs) and of the perf script   *)
(* dump parser (process_perf_script_dump) of bin/android_ndk_perf.py.      *)
(*                                                                         *)
(* Python lists are sequences (Python index i is index i + 1 here), the    *)
(* Python value None is the string NoneValue, and a PerfArgsCommand object *)
(* is identified by its name: its properties are looked up in the command  *)
(* table.                                                                  *)
(***************************************************************************)
EXTENDS Integers, Sequences, FiniteSets, TLC

VARIABLES
  \* ---- PerfArgs instance -------------------------------------------------
  obj,            \* "none" (no instance), "constructed", "failed" (__init__ raised)
  verbose,        \* the verbose argument of the last __init__ call
  initial_args,   \* PerfArgs.initial_args
  args,           \* PerfArgs.args
  command,        \* PerfArgs.command (name of the command, or NoneValue)
  sub_command,    \* PerfArgs.sub_command (name of the sub-command, or NoneValue)
  error,          \* the exception raised by the last call, or NoError
  applied,        \* number of direct man_to_builtin_help() calls made so far
  last,           \* the last method called on the instance: its name, its
                  \* arguments, self.args before the call and the value
                  \* returned (NoCall before any call)
  nops,           \* number of methods called on the instance so far
  same_list,      \* whether self.args and self.initial_args are one list
                  \* object (self.args is self.initial_args)
  \* ---- process_perf_script_dump -----------------------------------------
  dpc,            \* "idle" (not called), "loop", "correction", "returned", "raised"
  line_number,    \* number of lines of dump_output the loop has read
  shape,          \* what the lines read so far are made of (see ShapeAfter)
  samples,        \* samples, as the loop collected them (reported periods)
  sample_data,    \* sample_data: <<>> for None, <<groups>> for a dictionary
  sample,         \* sample: <<>> for None, <<s>> for a PerfRecordSample
  corrected,      \* whether the period correction branch (line 2127) was taken
  result,         \* the list returned (samples after the period correction)
  \* ---- execute_command --------------------------------------------------
  epc,            \* "idle" (not called), "called", "running", "exited",
                  \* "returned", "raised"
  kwargs,         \* the keyword arguments of the call
  handler,        \* the handler of SIGINT installed in the interpreter:
                  \* "previous" (the one before the call) or "sigint"
  sigint,         \* the SignalHandler instance: <<>> before it is created
  process,        \* the Popen instance: <<>> before it is created
  interrupted,    \* whether SIGINT was delivered while the command ran
  signals,        \* number of SIGINT signals delivered during the call
  kbdint,         \* the local variable kbdint
  kdbint,         \* the local variable kdbint: <<>> while it is unbound
  returned,       \* the tuple returned: <<>> before the return
  \* ---- Adb.shell_command ------------------------------------------------
  spc,            \* "idle" (not called), "called", "returned", "raised"
  shell_kwargs,   \* the keyword arguments of the call, indexed by name
  handler_result, \* what run_command does: raises, or returns out (as its
                  \* lines) and kbdint
  shell_returned, \* the tuple returned: <<>> before the return
  \* ---- BuildEnvironment._find_best_android_sdk ---------------------------
  sdk_pc,         \* "idle" (not called), "called", "returned", "raised"
  sdk_stdout,     \* the lines "android list target --compact" printed
  minsdk,         \* the argument minsdk
  target,         \* the argument target
  apitarget,      \* the string returned (NoneValue before the return)
  \* ---- BuildEnvironment.find_projects / build_all ------------------------
  ppc,            \* "idle" (not called), "walk", "found", "built"
  exclude_dirs,   \* the argument exclude_dirs of build_all (<<>> for None)
  walk_queue,     \* the directories os.walk has still to yield, as paths
  walked,         \* number of directories os.walk has yielded
  apk_dir_set,    \* apk_dir_set
  module_dir_set, \* module_dir_set
  projects,       \* the pair find_projects returned (sets for lists)
  lib_built,      \* the lists build_android_libraries was called with
  apk_built,      \* the paths build_android_apk was called with
  \* ---- _find_path_from_binary --------------------------------------------
  bpc,            \* "idle" (not called), "called", "returned"
  executable,     \* what find_executable(name) returns: <<>> for None, <<p>>
                  \* for the absolute path made of the components p
  levels,         \* the argument levels
  parent,         \* the value returned: <<>> for None, <<p>> for a path
  \* ---- process_perf_script_dump, read next to a filtered input -----------
  recent_header,  \* the sample-header line read last while no sample was
                  \* being aggregated: <<>> for none, <<line>> otherwise
  filtered,       \* the loop's variables (samples, sample_data, sample,
                  \* error) had the lines matching no pattern been left out
  left_out,       \* number of lines read that match no pattern
  \* ---- run_perf_remotely -------------------------------------------------
  rpc,            \* "idle" (not called), "called", "pushed", "try_record",
                  \* "try_run", "join", "interrupted", "kill_application",
                  \* "join_again", "pull", "dependencies", "finally",
                  \* "returned", "raised"
  remote_call,    \* the arguments of the call, indexed by name
  perf_args,      \* the PerfArgs instance: args, command and sub_command
  output_file,    \* the local variable output_filename
  perf_data,      \* the local variable perf_data
  perf_thread,    \* the CommandThread: "none" before it is created, then
                  \* "running", then "terminated"
  keyboard_interrupt,
                  \* the local variable keyboard_interrupt
  pending,        \* the exception raised inside the try statement, while
                  \* the finally clause runs: <<>> for none
  device_log      \* the commands issued to the device so far, in order

argsVars == <<obj, verbose, initial_args, args, command, sub_command, applied,
              last, nops, same_list>>

dumpVars == <<dpc, line_number, shape, samples, sample_data, sample, corrected,
              result>>

execVars == <<epc, kwargs, handler, sigint, process, interrupted, signals,
              kbdint, kdbint, returned>>

shellVars == <<spc, shell_kwargs, handler_result, shell_returned>>

sdkVars == <<sdk_pc, sdk_stdout, minsdk, target, apitarget>>

projVars == <<ppc, exclude_dirs, walk_queue, walked, apk_dir_set,
              module_dir_set, projects, lib_built, apk_built>>

binaryVars == <<bpc, executable, levels, parent>>

scanVars == <<recent_header, filtered, left_out>>

\* The variables of the functions other than PerfArgs and the dump parser.
remoteVars == <<rpc, remote_call, perf_args, output_file, perf_data,
                perf_thread, keyboard_interrupt, pending, device_log>>

otherVars == <<execVars, shellVars, sdkVars, projVars, binaryVars, scanVars,
               remoteVars>>

vars == <<argsVars, error, dumpVars, otherVars>>

-----------------------------------------------------------------------------
(* Bounds of the model.                                                    *)

\* Longest argument list handed to PerfArgs.__init__.
MaxArgs == 2

\* Longest argument list handed to man_to_builtin_help alone.
MaxHelpArgs == 3

\* Number of consecutive direct man_to_builtin_help() calls.
MaxApply == 2

\* Longest dump_output, in lines, handed to process_perf_script_dump.
MaxLines == 9

-----------------------------------------------------------------------------
(* Values.                                                                 *)

NoneValue == "<None>"

NoError == [type |-> "none", message |-> <<>>]

\* A variant of the error whose message leaves the token out.
UnsupportedCommand_NoToken(command_arg) ==
  [type |-> "PerfArgs.Error", message |-> <<"Unsupported perf command ">>]

\* PerfArgs.Error('Unsupported perf command %s' % command_arg): the message
\* is the format's literal text followed by the substituted token.
UnsupportedCommand(command_arg) ==
  [type |-> "PerfArgs.Error",
   message |-> <<"Unsupported perf command ", command_arg>>]

\* PerfArgsCommand.__init__: the properties of a perf command.  sub_commands
\* is the dictionary of sub-commands indexed by name (<<>> is the empty one).
PerfArgsCommand(subs, vopts, verb, rem, real, outf, inf) ==
  [sub_commands |-> subs, value_options |-> vopts, verbose |-> verb,
   remote |-> rem, real_command |-> real, output_filename |-> outf,
   input_filename |-> inf]

\* A PerfArgsCommand built with the defaults of every keyword argument.
DefaultCommand == PerfArgsCommand(<<>>, {}, FALSE, FALSE, TRUE, "", "")

\* PerfArgs.SUPPORTED_COMMANDS_DICT, keyed by command name.
SUPPORTED_COMMANDS_DICT ==
  ("annotate" :> PerfArgsCommand(<<>>, {}, TRUE, FALSE, TRUE, "", "perf.data"))
  @@ ("archive" :> PerfArgsCommand(<<>>, {}, FALSE, TRUE, TRUE, "", ""))
  @@ ("bench" :> PerfArgsCommand(<<>>, {}, FALSE, TRUE, TRUE, "", ""))
  @@ ("buildid-cache" :> PerfArgsCommand(<<>>, {}, TRUE, FALSE, TRUE, "", ""))
  @@ ("buildid-list" :>
        PerfArgsCommand(<<>>, {}, TRUE, FALSE, TRUE, "", "perf.data"))
  @@ ("diff" :> PerfArgsCommand(<<>>, {}, TRUE, FALSE, TRUE, "", ""))
  @@ ("evlist" :> PerfArgsCommand(<<>>, {}, FALSE, FALSE, TRUE, "", "perf.data"))
  @@ ("help" :> DefaultCommand)
  @@ ("inject" :> PerfArgsCommand(<<>>, {}, TRUE, FALSE, TRUE, "", ""))
  @@ ("kmem" :>
        PerfArgsCommand(
          ("record" :> DefaultCommand)
          @@ ("stat" :> PerfArgsCommand(<<>>, {}, FALSE, TRUE, TRUE, "", "")),
          {"-i", "--input", "-s", "--sort", "-l", "--line"},
          FALSE, FALSE, TRUE, "", "perf.data"))
  @@ ("list" :> PerfArgsCommand(<<>>, {}, FALSE, TRUE, TRUE, "", ""))
  @@ ("lock" :>
        PerfArgsCommand(
          ("record" :>
             PerfArgsCommand(<<>>, {}, FALSE, TRUE, TRUE, "perf.data", ""))
          @@ ("trace" :>
             PerfArgsCommand(<<>>, {}, FALSE, FALSE, TRUE, "", "perf.data"))
          @@ ("report" :>
             PerfArgsCommand(<<>>, {}, FALSE, FALSE, TRUE, "", "perf.data")),
          {"-i", "--input"}, TRUE, FALSE, TRUE, "", ""))
  @@ ("probe" :> PerfArgsCommand(<<>>, {}, TRUE, TRUE, TRUE, "", ""))
  @@ ("record" :> PerfArgsCommand(<<>>, {}, TRUE, TRUE, TRUE, "perf.data", ""))
  @@ ("report" :> PerfArgsCommand(<<>>, {}, TRUE, FALSE, TRUE, "", "perf.data"))
  @@ ("sched" :>
        PerfArgsCommand(
          ("record" :> PerfArgsCommand(<<>>, {}, FALSE, TRUE, TRUE, "", ""))
          @@ ("latency" :> DefaultCommand)
          @@ ("map" :> DefaultCommand)
          @@ ("replay" :> DefaultCommand)
          @@ ("trace" :> DefaultCommand),
          {"-i", "--input"}, TRUE, FALSE, TRUE, "", "perf.data"))
  @@ ("script" :>
        PerfArgsCommand(
          ("record" :> PerfArgsCommand(<<>>, {}, FALSE, TRUE, TRUE, "", ""))
          @@ ("report" :> DefaultCommand),
          {"-s", "--script", "-g", "--gen-script", "-i", "--input",
           "-k", "--vmlinux", "--kallsyms", "--symfs"},
          TRUE, FALSE, TRUE, "", "perf.data"))
  @@ ("stat" :> PerfArgsCommand(<<>>, {}, FALSE, FALSE, TRUE, "perf.data", ""))
  @@ ("test" :> DefaultCommand)
  @@ ("timechart" :>
        PerfArgsCommand(
          ("record" :> DefaultCommand),
          {"-i", "--input", "-o", "--output", "-w", "--width",
           "-p", "--process", "--symfs"},
          FALSE, FALSE, TRUE, "output.svg", "perf.data"))
  @@ ("top" :> PerfArgsCommand(<<>>, {}, TRUE, FALSE, TRUE, "", ""))
  @@ ("visualize" :>
        PerfArgsCommand(<<>>, {}, FALSE, FALSE, FALSE, "", "perf.data"))

\* The names of the supported commands (the keys of the dictionary).
SupportedNames == DOMAIN SUPPORTED_COMMANDS_DICT

\* dict.get(key): the value stored under key, None when there is none.  Only
\* the identity (the name) of the PerfArgsCommand found is kept.
DictGet(dict, key) == IF key \in DOMAIN dict THEN key ELSE NoneValue

-----------------------------------------------------------------------------
(* The tokens argument lists are made of.                                  *)

\* Tokens that are no command name: the help options, another option, a
\* word that is no perf command, and the empty string.
OtherTokens == {"-h", "--help", "-x", "bogus", ""}

Tokens == SupportedNames \cup OtherTokens

\* str.startswith('-') on the tokens of the model.
StartsWithDash(arg) ==
  arg \in {"-h", "--help", "-x", "--verbose", "-i", "--input", "-s", "--sort",
           "-l", "--line", "--script", "-g", "--gen-script", "-k", "--vmlinux",
           "--kallsyms", "--symfs", "-o", "--output", "-w", "--width", "-p",
           "--process", "-m", "-T", "-t", "-u"}

\* Every sequence over S of length at most n.
SeqsUpTo(S, n) == UNION {[1..k -> S] : k \in 0..n}

\* Argument lists handed to PerfArgs.__init__.
ArgLists == SeqsUpTo(Tokens, MaxArgs)

\* Argument lists handed to man_to_builtin_help alone: one command name stands
\* for every token the rewrite copies unchanged.
HelpTokens == {"help", "-h", "--help", "record", "-x"}

HelpArgLists == SeqsUpTo(HelpTokens, MaxHelpArgs)

-----------------------------------------------------------------------------
(* PerfArgs.man_to_builtin_help                                            *)

\* The while loop: index is the position examined, out_args the list built.
RECURSIVE ManLoop(_, _, _)
ManLoop(a, index, out_args) ==
  IF index > Len(a) THEN out_args
  ELSE IF a[index] = "help" /\ index + 1 <= Len(a)
    THEN ManLoop(a, index + 2, out_args \o <<a[index + 1], "-h">>)
  ELSE IF a[index] = "--help" /\ index = Len(a)
    THEN ManLoop(a, index + 1, Append(out_args, "-h"))
  ELSE ManLoop(a, index + 1, Append(out_args, a[index]))

\* A variant of the rewrite that turns "help COMMAND" into "COMMAND --help".
RECURSIVE ManLoopLongOption(_, _, _)
ManLoopLongOption(a, index, out_args) ==
  IF index > Len(a) THEN out_args
  ELSE IF a[index] = "help" /\ index + 1 <= Len(a)
    THEN ManLoopLongOption(a, index + 2, out_args \o <<a[index + 1], "--help">>)
  ELSE IF a[index] = "--help" /\ index = Len(a)
    THEN ManLoopLongOption(a, index + 1, Append(out_args, "-h"))
  ELSE ManLoopLongOption(a, index + 1, Append(out_args, a[index]))

man_to_builtin_help_LongOption(a) ==
  LET out_args == ManLoopLongOption(a, 1, <<>>)
  IN  IF Len(out_args) >= 1 /\ out_args[1] \in {"-h", "--help"}
        THEN <<"help">>
        ELSE out_args

\* The value man_to_builtin_help stores in self.args, given self.args = a.
man_to_builtin_help(a) ==
  LET out_args == ManLoop(a, 1, <<>>)
  IN  IF Len(out_args) >= 1 /\ out_args[1] \in {"-h", "--help"}
        THEN <<"help">>
        ELSE out_args

-----------------------------------------------------------------------------
(* PerfArgs.get_sub_command                                                *)

\* The while loop: returns the last value of arg.
RECURSIVE SubCommandScan(_, _, _, _)
SubCommandScan(a, cmd, index, arg) ==
  IF index > Len(a) THEN arg
  ELSE IF ~StartsWithDash(a[index]) THEN a[index]
  ELSE IF a[index] \in SUPPORTED_COMMANDS_DICT[cmd].value_options
    THEN SubCommandScan(a, cmd, index + 2, a[index])
  ELSE SubCommandScan(a, cmd, index + 1, a[index])

\* A variant of the scan that steps over an option but never over the value
\* that follows it.
RECURSIVE SubCommandScan_NoValueSkip(_, _, _, _)
SubCommandScan_NoValueSkip(a, cmd, index, arg) ==
  IF index > Len(a) THEN arg
  ELSE IF ~StartsWithDash(a[index]) THEN a[index]
  ELSE SubCommandScan_NoValueSkip(a, cmd, index + 1, a[index])

get_sub_command_NoValueSkip(a, cmd) ==
  IF Len(a) > 2
    THEN DictGet(SUPPORTED_COMMANDS_DICT[cmd].sub_commands,
                 SubCommandScan_NoValueSkip(a, cmd, 2, a[2]))
    ELSE NoneValue

get_sub_command(a, cmd) ==
  IF Len(a) > 2
    THEN DictGet(SUPPORTED_COMMANDS_DICT[cmd].sub_commands,
                 SubCommandScan(a, cmd, 2, a[2]))
    ELSE NoneValue

-----------------------------------------------------------------------------
(* PerfArgs.__init__                                                       *)

\* A variant that takes the command from a list of two arguments or more.
CommandArg_OffByOne(a) == IF Len(a) > 1 THEN a[1] ELSE "help"

\* command_arg = self.args[0] if self.args else 'help'
CommandArg(a) == IF Len(a) > 0 THEN a[1] ELSE "help"

\* A variant of __init__ that keeps the list it is given as self.args (no
\* list(args), no man_to_builtin_help): --verbose is appended to the one
\* list both attributes name.
PerfArgsInit_NoCopy(a, v) ==
  LET command_arg == CommandArg(a)
      cmd == DictGet(SUPPORTED_COMMANDS_DICT, command_arg)
  IN  IF cmd = NoneValue
        THEN [initial_args |-> a, args |-> a, command |-> NoneValue,
              sub_command |-> NoneValue, same_list |-> TRUE,
              error |-> UnsupportedCommand(command_arg)]
        ELSE LET final == IF SUPPORTED_COMMANDS_DICT[cmd].verbose /\ v
                            THEN Append(a, "--verbose")
                            ELSE a
             IN  [initial_args |-> final, args |-> final, command |-> cmd,
                  sub_command |-> get_sub_command(final, cmd),
                  same_list |-> TRUE, error |-> NoError]

\* The attributes of the instance when __init__ ends, and the exception it
\* raised (NoError when it returned).  self.args is list(args), a copy, and
\* man_to_builtin_help binds self.args to a new list: same_list is False.
PerfArgsInit(a, v) ==
  LET rewritten == man_to_builtin_help(a)
      command_arg == CommandArg(rewritten)
      cmd == DictGet(SUPPORTED_COMMANDS_DICT, command_arg)
  IN  IF cmd = NoneValue
        THEN [initial_args |-> a, args |-> rewritten, command |-> NoneValue,
              sub_command |-> NoneValue, same_list |-> FALSE,
              error |-> UnsupportedCommand(command_arg)]
        ELSE LET final == IF SUPPORTED_COMMANDS_DICT[cmd].verbose /\ v
                            THEN Append(rewritten, "--verbose")
                            ELSE rewritten
             IN  [initial_args |-> a, args |-> final, command |-> cmd,
                  sub_command |-> get_sub_command(final, cmd),
                  same_list |-> FALSE, error |-> NoError]

-----------------------------------------------------------------------------
(* The methods of PerfArgs that read or rewrite self.args.  a is self.args, *)
(* cmd is self.command and sub is self.sub_command (names, or NoneValue).   *)

\* Number of methods called on one instance.
MaxOps == 2

\* Number of tokens that follow the command in the argument lists the
\* methods are exercised on.
MaxOpArgs == 2

\* The state of last before any method is called.
NoCall == [op |-> "none", inp |-> <<>>, before |-> <<>>, ret |-> NoneValue]

\* Commands the methods are exercised on: those the methods name, one with
\* no output file and no sub-command (report), one with sub-commands only
\* (lock).
OpCommands == {"record", "top", "stat", "script", "report", "lock"}

\* Tokens that follow the command (-p is the one insert_process_option
\* adds).
OpRestTokens == {"-u", "-o", "--symfs", "record", "custom.data"}

OpArgLists ==
  {<<c>> \o rest : c \in OpCommands, rest \in SeqsUpTo(OpRestTokens, MaxOpArgs)}

\* Process ids and str(pid).
Pids == {123}

StrOfPid == (123 :> "123")

\* Symbol directories ("" when there is none) and remote output file names
\* ("" when the output file is not to be replaced).
SymbolDirs == {"", "syms"}

RemoteNames == {"", "remote.data"}

\* The smallest element of a non-empty set of integers.
SetMin(S) == CHOOSE x \in S : \A y \in S : x <= y

\* A variant that takes the root requirement from the arguments alone.
requires_root_AnyCommand(cmd, a) ==
  SelectSeq(SubSeq(a, 2, Len(a)),
            LAMBDA arg : arg \in {"-p", "-t", "-u"}) = <<>>

\* PerfArgs.requires_root
requires_root(cmd, a) ==
  /\ cmd = "top"
  /\ SelectSeq(SubSeq(a, 2, Len(a)),
               LAMBDA arg : arg \in {"-p", "-t", "-u"}) = <<>>

\* PerfArgs.insert_process_option: the value of self.args afterwards.
insert_process_option(a, cmd, sub, pid) ==
  IF \/ cmd \in {"record", "stat", "top"}
     \/ (cmd = "script" /\ sub # NoneValue /\ sub = "record")
    THEN a \o <<"-p", StrOfPid[pid]>>
    ELSE a

\* A variant that does not look for --symfs in the arguments.
insert_symfs_dir_NoLookup(a, cmd, symbols_dir) ==
  IF symbols_dir = "" \/ cmd \notin {"annotate", "diff", "report", "script",
                                    "timechart", "visualize"}
    THEN a
    ELSE a \o <<"--symfs", symbols_dir>>

\* PerfArgs.insert_symfs_dir: the value of self.args afterwards.
insert_symfs_dir(a, cmd, symbols_dir) ==
  IF symbols_dir = "" \/ cmd \notin {"annotate", "diff", "report", "script",
                                    "timechart", "visualize"}
    THEN a
  ELSE IF \E i \in 1..Len(a) : a[i] = "--symfs"
    THEN a
  ELSE a \o <<"--symfs", symbols_dir>>

\* A variant that returns the index of the option, not of its value.
parse_value_option_OptionIndex(a, options) ==
  LET found == {i \in 0..(Len(a) - 1) : a[i + 1] \in options /\ i < Len(a) - 1}
  IN  IF found = {} THEN -1 ELSE SetMin(found)

\* PerfArgs.parse_value_option: the Python index of the value (the element
\* a[index + 1] here), -1 when no option of the list is followed by one.
parse_value_option(a, options) ==
  LET found == {i \in 0..(Len(a) - 1) : a[i + 1] \in options /\ i < Len(a) - 1}
  IN  IF found = {} THEN -1 ELSE SetMin(found) + 1

\* PerfArgs.requires_remote
requires_remote(cmd, sub) ==
  \/ SUPPORTED_COMMANDS_DICT[cmd].remote
  \/ /\ sub # NoneValue
     /\ SUPPORTED_COMMANDS_DICT[cmd].sub_commands[sub].remote

\* PerfArgs.get_default_output_filename
get_default_output_filename(cmd, sub) ==
  IF SUPPORTED_COMMANDS_DICT[cmd].output_filename # ""
    THEN SUPPORTED_COMMANDS_DICT[cmd].output_filename
  ELSE IF sub # NoneValue
          /\ SUPPORTED_COMMANDS_DICT[cmd].sub_commands[sub].output_filename # ""
    THEN SUPPORTED_COMMANDS_DICT[cmd].sub_commands[sub].output_filename
  ELSE ""

\* PerfArgs.get_output_filename: the value of self.args afterwards and the
\* string returned.
get_output_filename(a, cmd, sub, remote_output_filename) ==
  LET output_filename == get_default_output_filename(cmd, sub)
      index == parse_value_option(a, {"-o"})
  IN  IF output_filename = ""
        THEN [args |-> a, ret |-> ""]
      ELSE IF index >= 0
        THEN [args |-> IF remote_output_filename # ""
                         THEN [a EXCEPT ![index + 1] = remote_output_filename]
                         ELSE a,
              ret |-> a[index + 1]]
      ELSE IF remote_output_filename # ""
        THEN [args |-> a \o <<"-o", remote_output_filename>>,
              ret |-> output_filename]
      ELSE [args |-> a, ret |-> output_filename]

\* The arguments process_remote_args appends before the output file name is
\* looked up, with -T ahead of -g.
RemoteOptions_TimestampFirst(cmd, call_graph_recording, timestamp_recording) ==
  (IF cmd = "record" THEN <<"-m", "4">> ELSE <<>>)
  \o (IF timestamp_recording THEN <<"-T">> ELSE <<>>)
  \o (IF call_graph_recording THEN <<"-g">> ELSE <<>>)

\* Lines 1106-1111: the arguments process_remote_args appends before the
\* output file name is looked up.
RemoteOptions(cmd, call_graph_recording, timestamp_recording) ==
  (IF cmd = "record" THEN <<"-m", "4">> ELSE <<>>)
  \o (IF call_graph_recording THEN <<"-g">> ELSE <<>>)
  \o (IF timestamp_recording THEN <<"-T">> ELSE <<>>)

\* PerfArgs.process_remote_args: the value of self.args afterwards and the
\* string returned.
process_remote_args(a, cmd, sub, remote, cg, ts) ==
  IF cmd \notin {"record", "top", "stat"}
    THEN [args |-> a, ret |-> ""]
    ELSE get_output_filename(a \o RemoteOptions(cmd, cg, ts), cmd, sub, remote)

-----------------------------------------------------------------------------
(* The lines of a perf script -D dump.  A line is described by the fields  *)
(* the regular expressions of the parser capture from it; numbers are kept *)
(* as the text they are written in, and converted where the code converts. *)

\* A sample event header, e.g.
\* "0 0x5d8 [0x38]: PERF_RECORD_SAMPLE(IP, 2): 1234/1235: 0x400500 period: 1"
HeaderLine(period) ==
  [kind |-> "header", file_offset |-> "0x5d8",
   perf_event_type |-> "PERF_RECORD_SAMPLE", pid |-> "1234", tid |-> "1235",
   ip |-> "0x400500", period |-> period]

\* A report line, e.g. "app  1236 1.01: cycles: " (comm is all before the
\* last blank that precedes the tid)
ReportLine(time) ==
  [kind |-> "report", comm |-> "app ", tid |-> "1236", time |-> time,
   event |-> "cycles"]

\* A stack line, e.g. "\t          4004F0 main (/bin/app)"
StackLine(ip, symbol, dso) ==
  [kind |-> "stack", ip |-> ip, symbol |-> symbol, dso |-> dso]

\* The empty line.
EmptyLine == [kind |-> "empty"]

\* A non-empty line none of the three patterns matches.
OtherLine == [kind |-> "other"]

\* Stack lines whose ip field is hexadecimal: one with a symbol and an
\* object, one with neither.
GoodStackLines ==
  {StackLine("4004F0", "main", "(/bin/app)"), StackLine("b6f0", "", "()")}

\* A line PERF_REPORT_STACK_RE matches ([0-9a-zA-Z]+ for the ip) whose ip
\* field is no hexadecimal number.
BadIpStackLine == StackLine("zz", "main", "(/bin/app)")

Lines ==
  {EmptyLine, OtherLine, BadIpStackLine}
  \cup {HeaderLine(p) : p \in {"0", "1", "2"}}
  \cup {ReportLine(t) : t \in {"1.00", "1.01", "1.03"}}
  \cup GoodStackLines

\* int(text): the periods written in the header lines.
IntBase10 ==
  ("0" :> 0) @@ ("1" :> 1) @@ ("2" :> 2) @@ ("3" :> 3) @@ ("5" :> 5)
  @@ ("7" :> 7) @@ ("10" :> 10) @@ ("1234" :> 1234)
             @@ ("1235" :> 1235) @@ ("1236" :> 1236)

\* An address is kept as its two 16-bit halves <<high, low>>: 0xffffffff is
\* more than the model checker's integers hold.
\* int(text[2:], 16) for the 0x-prefixed fields of the header lines.
IntBase16Prefixed == ("0x5d8" :> 1496) @@ ("0x400500" :> <<64, 1280>>)

\* int(text, 16) for the ip field of the stack lines; a text outside the
\* domain is no hexadecimal number and int() raises ValueError.
IntBase16 == ("4004F0" :> <<64, 1264>>) @@ ("b6f0" :> <<0, 46832>>)

\* float(text) for the time field of the report lines, in hundredths of a
\* second.
FloatOf == ("1.00" :> 100) @@ ("1.01" :> 101) @@ ("1.03" :> 103)

\* str.strip() on the symbol fields of the model.
StrStrip(text) == IF text \in {"", " "} THEN "" ELSE text

\* PERF_DUMP_EVENT_SAMPLE_RE.match(line): <<>> for no match, <<groups>> else.
MatchSample(line) ==
  IF line.kind = "header"
    THEN <<[file_offset |-> line.file_offset,
            perf_event_type |-> line.perf_event_type, pid |-> line.pid,
            tid |-> line.tid, ip |-> line.ip, period |-> line.period]>>
    ELSE <<>>

\* PERF_DUMP_EVENT_SAMPLE_REPORT_RE.match(line)
MatchReport(line) ==
  IF line.kind = "report"
    THEN <<[comm |-> line.comm, tid |-> line.tid, time |-> line.time,
            event |-> line.event]>>
    ELSE <<>>

\* PERF_REPORT_STACK_RE.match(line)
MatchStack(line) ==
  IF line.kind = "stack"
    THEN <<[ip |-> line.ip, symbol |-> line.symbol, dso |-> line.dso]>>
    ELSE <<>>

-----------------------------------------------------------------------------
(* process_perf_script_dump: the loop over the lines.                      *)

\* PerfIp(ip, symbol, dso)
PerfIp(ip, symbol, dso) == [ip |-> ip, symbol |-> symbol, dso |-> dso]

\* 0xffffffff
IdleAddress == <<65535, 65535>>

\* PerfIp(0xffffffff, '[idle]', '([idle])')
IdleIp == PerfIp(IdleAddress, "[idle]", "([idle])")

\* The PerfIp appended for a matched stack line.
StackIp(groups) ==
  PerfIp(IntBase16[groups.ip],
         IF StrStrip(groups.symbol) # "" THEN groups.symbol ELSE "[unknown]",
         IF groups.dso = "()" THEN "([unknown])" ELSE groups.dso)

\* sample_data.update(m.groupdict()) followed by PerfRecordSample(...): the
\* report line's tid replaces the header's.
PerfRecordSample(header, report) ==
  [file_offset |-> IntBase16Prefixed[header.file_offset],
   event_type |-> header.perf_event_type,
   pid |-> IntBase10[header.pid],
   tid |-> IntBase10[report.tid],
   ip |-> IntBase16Prefixed[header.ip],
   period |-> IntBase10[header.period],
   command |-> report.comm,
   time |-> FloatOf[report.time],
   event |-> report.event,
   stack |-> <<>>]

ValueError(text) ==
  [type |-> "ValueError",
   message |-> <<"invalid literal for int() with base 16: ", text>>]

IndexError == [type |-> "IndexError", message |-> <<"list index out of range">>]

\* A variant of the end of a stack trace that appends no idle frame.
EndOfStack_NoIdle(s) == s

\* The sample appended to samples at the empty line that ends its stack.
EndOfStack(s) ==
  IF s.stack = <<>> THEN [s EXCEPT !.stack = Append(s.stack, IdleIp)] ELSE s

\* A variant of the loop in which a line the report expression does not
\* match makes the loop forget the header it has read.
LoopBody_ForgetHeader(st, line) ==
  IF line.kind = "empty" THEN
    IF st.sample # <<>>
      THEN [st EXCEPT !.samples = Append(st.samples, EndOfStack(st.sample[1])),
                      !.sample = <<>>, !.sample_data = <<>>]
      ELSE st
  ELSE IF st.sample # <<>> THEN
    LET m == MatchStack(line)
    IN  IF m = <<>> THEN st
        ELSE IF m[1].ip \notin DOMAIN IntBase16
          THEN [st EXCEPT !.error = ValueError(m[1].ip)]
        ELSE [st EXCEPT !.sample =
                <<[st.sample[1] EXCEPT
                     !.stack = Append(st.sample[1].stack, StackIp(m[1]))]>>]
  ELSE IF st.sample_data # <<>> THEN
    LET m == MatchReport(line)
    IN  IF m = <<>> THEN [st EXCEPT !.sample_data = <<>>]
        ELSE [st EXCEPT !.sample = <<PerfRecordSample(st.sample_data[1], m[1])>>]
  ELSE
    LET m == MatchSample(line)
    IN  IF m = <<>> THEN st ELSE [st EXCEPT !.sample_data = m]

\* One iteration of the loop on the state st = [samples, sample_data, sample,
\* error]: the state after the iteration.
LoopBody(st, line) ==
  IF line.kind = "empty" THEN
    IF st.sample # <<>>
      THEN [st EXCEPT !.samples = Append(st.samples, EndOfStack(st.sample[1])),
                      !.sample = <<>>, !.sample_data = <<>>]
      ELSE st
  ELSE IF st.sample # <<>> THEN
    LET m == MatchStack(line)
    IN  IF m = <<>> THEN st
        ELSE IF m[1].ip \notin DOMAIN IntBase16
          THEN [st EXCEPT !.error = ValueError(m[1].ip)]
        ELSE [st EXCEPT !.sample =
                <<[st.sample[1] EXCEPT
                     !.stack = Append(st.sample[1].stack, StackIp(m[1]))]>>]
  ELSE IF st.sample_data # <<>> THEN
    LET m == MatchReport(line)
    IN  IF m = <<>> THEN st
        ELSE [st EXCEPT !.sample = <<PerfRecordSample(st.sample_data[1], m[1])>>]
  ELSE
    LET m == MatchSample(line)
    IN  IF m = <<>> THEN st ELSE [st EXCEPT !.sample_data = m]

-----------------------------------------------------------------------------
(* process_perf_script_dump: the period correction.                        *)

RECURSIVE SumPeriods(_)
SumPeriods(ss) ==
  IF ss = <<>> THEN 0 ELSE ss[1].period + SumPeriods(Tail(ss))

\* if samples and sum([s.period for s in samples]) == len(samples)
CorrectionApplies(ss) == ss # <<>> /\ SumPeriods(ss) = Len(ss)

\* A variant whose range starts one sample early (range(0, len(samples) - 1)):
\* each sample is paired with the delta to the sample before it.
DeltaTimes_Shifted(ss) ==
  [i \in 1..(Len(ss) - 1) |->
     IF i = 1 THEN ss[1].time - ss[Len(ss)].time
              ELSE ss[i].time - ss[i - 1].time]

\* delta_times, before the last delta is duplicated.
DeltaTimes(ss) == [i \in 1..(Len(ss) - 1) |-> ss[i + 1].time - ss[i].time]

\* Lines 2127-2136 on the samples ss: the list returned and the exception
\* raised.  delta_times[-1] raises IndexError when delta_times is empty.
PeriodCorrection(ss) ==
  IF ~CorrectionApplies(ss)
    THEN [result |-> ss, error |-> NoError]
  ELSE LET delta_times == DeltaTimes(ss)
       IN  IF delta_times = <<>>
             THEN [result |-> <<>>, error |-> IndexError]
             ELSE LET all == Append(delta_times, delta_times[Len(delta_times)])
                  IN  [result |-> [i \in 1..Len(ss) |->
                                     [ss[i] EXCEPT !.period = all[i]]],
                       error |-> NoError]

-----------------------------------------------------------------------------
(* What the lines read so far are made of.  ok: they are a sequence of     *)
(* blocks, each a header line, a report line, one stack line or more with  *)
(* a hexadecimal ip and an empty line, the last block possibly unfinished. *)
(* blocks: the lines of each block, the empty line left out.  stage: the   *)
(* last line read ("start" before the first line and after an empty one).  *)

NoLines == [ok |-> TRUE, stage |-> "start", blocks |-> <<>>]

\* The lines are no such sequence: what they were is forgotten.
NotBlocks == [ok |-> FALSE, stage |-> "start", blocks |-> <<>>]

AddToLastBlock(sh, line, stage) ==
  [sh EXCEPT !.stage = stage,
             !.blocks[Len(sh.blocks)] = Append(sh.blocks[Len(sh.blocks)], line)]

ShapeAfter(sh, line) ==
  IF ~sh.ok THEN NotBlocks
  ELSE IF sh.stage = "start" /\ line.kind = "header"
    THEN [sh EXCEPT !.stage = "header", !.blocks = Append(sh.blocks, <<line>>)]
  ELSE IF sh.stage = "header" /\ line.kind = "report"
    THEN AddToLastBlock(sh, line, "report")
  ELSE IF sh.stage \in {"report", "stack"} /\ line \in GoodStackLines
    THEN AddToLastBlock(sh, line, "stack")
  ELSE IF sh.stage = "stack" /\ line.kind = "empty"
    THEN [sh EXCEPT !.stage = "start"]
  ELSE NotBlocks

-----------------------------------------------------------------------------
(* The values the variables of a function have while another function is   *)
(* the one being run.                                                      *)

\* The defaults of the keyword arguments of execute_command.
DefaultKeywordArguments ==
  [display_output_on_error |-> TRUE, keyboard_interrupt_success |-> FALSE,
   catch_sigint |-> TRUE, ignore_error |-> FALSE, display_output |-> FALSE]

\* No PerfArgs instance, no exception.
ArgsIdle ==
  /\ obj = "none"
  /\ verbose = FALSE
  /\ initial_args = <<>>
  /\ args = <<>>
  /\ command = NoneValue
  /\ sub_command = NoneValue
  /\ error = NoError
  /\ applied = 0
  /\ last = NoCall
  /\ nops = 0
  /\ same_list = FALSE

\* process_perf_script_dump is not called.
DumpIdle ==
  /\ dpc = "idle"
  /\ line_number = 0
  /\ shape = NoLines
  /\ samples = <<>>
  /\ sample_data = <<>>
  /\ sample = <<>>
  /\ corrected = FALSE
  /\ result = <<>>

\* execute_command is not called.
ExecIdle ==
  /\ epc = "idle"
  /\ kwargs = DefaultKeywordArguments
  /\ handler = "previous"
  /\ sigint = <<>>
  /\ process = <<>>
  /\ interrupted = FALSE
  /\ signals = 0
  /\ kbdint = FALSE
  /\ kdbint = <<>>
  /\ returned = <<>>

\* Adb.shell_command is not called.
ShellIdle ==
  /\ spc = "idle"
  /\ shell_kwargs = <<>>
  /\ handler_result = [raised |-> FALSE, out |-> <<>>, kbdint |-> FALSE]
  /\ shell_returned = <<>>

\* _find_best_android_sdk is not called.
SdkIdle ==
  /\ sdk_pc = "idle"
  /\ sdk_stdout = <<>>
  /\ minsdk = 0
  /\ target = 0
  /\ apitarget = NoneValue

\* build_all is not called.
ProjIdle ==
  /\ ppc = "idle"
  /\ exclude_dirs = <<>>
  /\ walk_queue = <<>>
  /\ walked = 0
  /\ apk_dir_set = {}
  /\ module_dir_set = {}
  /\ projects = [apk_dirs |-> {}, lib_dirs |-> {}]
  /\ lib_built = <<>>
  /\ apk_built = {}

\* _find_path_from_binary is not called.
BinaryIdle ==
  /\ bpc = "idle"
  /\ executable = <<>>
  /\ levels = 0
  /\ parent = <<>>

\* The variables of the loop before the first line (lines 2065-2067).
LoopStart ==
  [samples |-> <<>>, sample_data |-> <<>>, sample |-> <<>>, error |-> NoError]

\* process_perf_script_dump is not read next to a second run.
ScanIdle ==
  /\ recent_header = <<>>
  /\ filtered = LoopStart
  /\ left_out = 0

\* The arguments of a run_perf_remotely call that was not made.
NoRemoteCall ==
  [package_name |-> "", activity_name |-> "", call_graph_recording |-> FALSE,
   timestamp_recording |-> FALSE, start_application |-> FALSE,
   kill_application_on_stop |-> FALSE, record_time |-> 0]

\* run_perf_remotely is not called.
RemoteIdle ==
  /\ rpc = "idle"
  /\ remote_call = NoRemoteCall
  /\ perf_args = [args |-> <<>>, command |-> NoneValue,
                  sub_command |-> NoneValue]
  /\ output_file = ""
  /\ perf_data = ""
  /\ perf_thread = "none"
  /\ keyboard_interrupt = FALSE
  /\ pending = <<>>
  /\ device_log = <<>>

OthersIdle ==
  /\ ExecIdle
  /\ ShellIdle
  /\ SdkIdle
  /\ ProjIdle
  /\ BinaryIdle
  /\ ScanIdle
  /\ RemoteIdle

-----------------------------------------------------------------------------
(* Specification of the PerfArgs instance.                                 *)

Init ==
  /\ obj = "none"
  /\ verbose = FALSE
  /\ initial_args = <<>>
  /\ args = <<>>
  /\ command = NoneValue
  /\ sub_command = NoneValue
  /\ error = NoError
  /\ applied = 0
  /\ last = NoCall
  /\ nops = 0
  /\ same_list = FALSE
  /\ dpc = "idle"
  /\ line_number = 0
  /\ shape = NoLines
  /\ samples = <<>>
  /\ sample_data = <<>>
  /\ sample = <<>>
  /\ corrected = FALSE
  /\ result = <<>>
  /\ OthersIdle

\* perf_args = PerfArgs(a, v): the instance is created once per invocation
\* of the script, from the arguments that follow the script's own.
Construct ==
  /\ obj = "none"
  /\ \E a \in ArgLists, v \in BOOLEAN :
    LET r == PerfArgsInit(a, v)
    IN  /\ obj' = IF r.error = NoError THEN "constructed" ELSE "failed"
        /\ verbose' = v
        /\ initial_args' = r.initial_args
        /\ args' = r.args
        /\ command' = r.command
        /\ sub_command' = r.sub_command
        /\ error' = r.error
        /\ applied' = 0
        /\ same_list' = r.same_list
        /\ UNCHANGED <<last, nops>>
        /\ UNCHANGED <<dumpVars, otherVars>>

Next == Construct

Spec == Init /\ [][Next]_vars

-----------------------------------------------------------------------------
(* Specification of man_to_builtin_help as a function of the list stored   *)
(* in self.args: the list starts as any argument list and the method is    *)
(* called on it repeatedly.                                                *)

InitHelp ==
  /\ obj = "none"
  /\ verbose = FALSE
  /\ initial_args \in HelpArgLists
  /\ args = initial_args
  /\ command = NoneValue
  /\ sub_command = NoneValue
  /\ error = NoError
  /\ applied = 0
  /\ last = NoCall
  /\ nops = 0
  /\ same_list = FALSE
  /\ dpc = "idle"
  /\ line_number = 0
  /\ shape = NoLines
  /\ samples = <<>>
  /\ sample_data = <<>>
  /\ sample = <<>>
  /\ corrected = FALSE
  /\ result = <<>>
  /\ OthersIdle

ManToBuiltinHelp ==
  /\ applied < MaxApply
  /\ args' = man_to_builtin_help(args)
  /\ applied' = applied + 1
  /\ same_list' = FALSE
  /\ UNCHANGED <<obj, verbose, initial_args, command, sub_command, error>>
  /\ UNCHANGED <<last, nops>>
  /\ UNCHANGED <<dumpVars, otherVars>>

NextHelp == ManToBuiltinHelp

SpecHelp == InitHelp /\ [][NextHelp]_vars

-----------------------------------------------------------------------------
(* Specification of the methods called on a PerfArgs instance: the         *)
(* instance is constructed, then its methods are called in any order.      *)
(* command and sub_command are set by __init__ alone.                      *)

ConstructOps ==
  /\ obj = "none"
  /\ \E a \in OpArgLists, v \in BOOLEAN :
    LET r == PerfArgsInit(a, v)
    IN  /\ obj' = IF r.error = NoError THEN "constructed" ELSE "failed"
        /\ verbose' = v
        /\ initial_args' = r.initial_args
        /\ args' = r.args
        /\ command' = r.command
        /\ sub_command' = r.sub_command
        /\ error' = r.error
        /\ same_list' = r.same_list
        /\ UNCHANGED <<applied, last, nops>>
        /\ UNCHANGED <<dumpVars, otherVars>>

\* A method of the instance was called: what no method changes.
MethodCalled ==
  /\ nops' = nops + 1
  /\ UNCHANGED <<obj, verbose, command, sub_command, applied, error>>
  /\ UNCHANGED <<dumpVars, otherVars>>

\* The method changed the list self.args names (append, extend, item
\* assignment): self.initial_args shows the change when it names that list.
ChangedInPlace ==
  /\ initial_args' = IF same_list THEN args' ELSE initial_args
  /\ UNCHANGED same_list

\* The method bound self.args to a new list when it changed it.
BoundToNewList ==
  /\ same_list' = (same_list /\ args' = args)
  /\ UNCHANGED initial_args

RequiresRoot ==
  /\ obj = "constructed"
  /\ nops < MaxOps
  /\ last' = [op |-> "requires_root", inp |-> <<>>, before |-> args,
              ret |-> requires_root(command, args)]
  /\ args' = args
  /\ UNCHANGED <<initial_args, same_list>>
  /\ MethodCalled

InsertProcessOption ==
  /\ obj = "constructed"
  /\ nops < MaxOps
  /\ \E pid \in Pids :
       /\ args' = insert_process_option(args, command, sub_command, pid)
       /\ last' = [op |-> "insert_process_option", inp |-> <<pid>>,
                   before |-> args, ret |-> NoneValue]
  /\ ChangedInPlace
  /\ MethodCalled

InsertSymfsDir ==
  /\ obj = "constructed"
  /\ nops < MaxOps
  /\ \E symbols_dir \in SymbolDirs :
       /\ args' = insert_symfs_dir(args, command, symbols_dir)
       /\ last' = [op |-> "insert_symfs_dir", inp |-> <<symbols_dir>>,
                   before |-> args, ret |-> NoneValue]
  /\ BoundToNewList
  /\ MethodCalled

GetOutputFilename ==
  /\ obj = "constructed"
  /\ nops < MaxOps
  /\ \E remote \in RemoteNames :
       LET r == get_output_filename(args, command, sub_command, remote)
       IN  /\ args' = r.args
           /\ last' = [op |-> "get_output_filename", inp |-> <<remote>>,
                       before |-> args, ret |-> r.ret]
  /\ ChangedInPlace
  /\ MethodCalled

ProcessRemoteArgs ==
  /\ obj = "constructed"
  /\ nops < MaxOps
  /\ \E remote \in RemoteNames, cg \in BOOLEAN, ts \in BOOLEAN :
       LET r == process_remote_args(args, command, sub_command, remote, cg, ts)
       IN  /\ args' = r.args
           /\ last' = [op |-> "process_remote_args",
                       inp |-> <<remote, cg, ts>>, before |-> args,
                       ret |-> r.ret]
  /\ ChangedInPlace
  /\ MethodCalled

NextOps ==
  \/ ConstructOps
  \/ RequiresRoot
  \/ InsertProcessOption
  \/ InsertSymfsDir
  \/ GetOutputFilename
  \/ ProcessRemoteArgs

SpecOps == Init /\ [][NextOps]_vars

-----------------------------------------------------------------------------
(* Specification of process_perf_script_dump.  The lines of dump_output    *)
(* are drawn one at a time as the loop reads them, and dump_output may end *)
(* after any of them.  samples keeps the periods as reported; result is    *)
(* the list after the period correction, which the function returns.       *)

InitDump ==
  /\ obj = "none"
  /\ verbose = FALSE
  /\ initial_args = <<>>
  /\ args = <<>>
  /\ command = NoneValue
  /\ sub_command = NoneValue
  /\ error = NoError
  /\ applied = 0
  /\ last = NoCall
  /\ nops = 0
  /\ same_list = FALSE
  /\ dpc = "loop"
  /\ line_number = 0
  /\ shape = NoLines
  /\ samples = <<>>
  /\ sample_data = <<>>
  /\ sample = <<>>
  /\ corrected = FALSE
  /\ result = <<>>
  /\ OthersIdle

\* One iteration of "for line_number, line in enumerate(lines)".
ParseLine ==
  /\ dpc = "loop"
  /\ line_number < MaxLines
  /\ \E line \in Lines :
       LET st == LoopBody([samples |-> samples, sample_data |-> sample_data,
                           sample |-> sample, error |-> NoError], line)
       IN  /\ samples' = st.samples
           /\ sample_data' = st.sample_data
           /\ sample' = st.sample
           /\ error' = st.error
           /\ dpc' = IF st.error = NoError THEN "loop" ELSE "raised"
           /\ shape' = ShapeAfter(shape, line)
  /\ line_number' = line_number + 1
  /\ UNCHANGED <<corrected, result, argsVars, otherVars>>

\* The loop ends: every line has been read.
EndOfLines ==
  /\ dpc = "loop"
  /\ dpc' = "correction"
  /\ UNCHANGED <<line_number, shape, samples, sample_data, sample, corrected,
                 result, error, argsVars, otherVars>>

\* Lines 2125-2136: the period correction and the return.
CorrectPeriods ==
  /\ dpc = "correction"
  /\ LET r == PeriodCorrection(samples)
     IN  /\ result' = r.result
         /\ error' = r.error
         /\ dpc' = IF r.error = NoError THEN "returned" ELSE "raised"
  /\ corrected' = CorrectionApplies(samples)
  /\ UNCHANGED <<line_number, shape, samples, sample_data, sample, argsVars,
                 otherVars>>

NextDump == ParseLine \/ EndOfLines \/ CorrectPeriods

SpecDump == InitDump /\ [][NextDump]_vars

-----------------------------------------------------------------------------
(* Specification of execute_command.  The command's output is not          *)
(* modelled: stdout and stderr stand for the two strings read.  SIGINT is  *)
(* delivered to the interpreter at any moment between the start of the     *)
(* command and the end of the call.                                        *)

\* Number of SIGINT signals delivered during one call.
MaxSignals == 2

\* The keyword arguments of a call (verbose only prints the command line).
KeywordArguments ==
  [display_output_on_error : BOOLEAN, keyboard_interrupt_success : BOOLEAN,
   catch_sigint : BOOLEAN, ignore_error : BOOLEAN, display_output : BOOLEAN]

\* Exit statuses of the command: success, failure, killed by SIGINT.
ReturnCodes == {0, 1, -2}

\* CommandFailedError(error_string, returncode)
CommandFailedError(error_string, returncode) ==
  [type |-> "CommandFailedError", message |-> <<error_string, returncode>>]

\* The exception the interpreter's own SIGINT handler raises.
KeyboardInterrupt == [type |-> "KeyboardInterrupt", message |-> <<>>]

InitExec ==
  /\ ArgsIdle
  /\ DumpIdle
  /\ SdkIdle
  /\ ProjIdle
  /\ BinaryIdle
  /\ ScanIdle
  /\ RemoteIdle
  /\ epc = "called"
  /\ kwargs \in KeywordArguments
  /\ handler = "previous"
  /\ sigint = <<>>
  /\ process = <<>>
  /\ interrupted = FALSE
  /\ signals = 0
  /\ kbdint = FALSE
  /\ kdbint = <<>>
  /\ returned = <<>>
  /\ ShellIdle

\* Lines 1548-1557: the SignalHandler is created and installed, then the
\* process is started, or cannot be (OSError).
StartProcess ==
  /\ epc = "called"
  /\ sigint' = IF kwargs.catch_sigint
                 THEN <<[called |-> FALSE, signal_handler |-> handler]>>
                 ELSE sigint
  /\ handler' = IF kwargs.catch_sigint THEN "sigint" ELSE handler
  /\ \E started \in BOOLEAN :
       IF started
         THEN /\ process' = <<[returncode |-> <<>>]>>
              /\ epc' = "running"
              /\ error' = error
         ELSE /\ process' = process
              /\ epc' = "raised"
              /\ error' = CommandFailedError("OSError error", 1)
  /\ UNCHANGED <<kwargs, interrupted, signals, kbdint, kdbint, returned>>
  /\ UNCHANGED <<argsVars, dumpVars, shellVars, sdkVars, projVars,
                 binaryVars, scanVars, remoteVars>>

\* SIGINT arrives while the call waits for the command, or between the end
\* of the command and line 1575: the installed handler runs
\* (SignalHandler.__call__, or the interpreter's which raises).
DeliverSigint ==
  /\ epc \in {"running", "exited"}
  /\ signals < MaxSignals
  /\ signals' = signals + 1
  /\ interrupted' = (interrupted \/ epc = "running")
  /\ IF handler = "sigint"
       THEN /\ sigint' = <<[sigint[1] EXCEPT !.called = TRUE]>>
            /\ UNCHANGED <<epc, error>>
       ELSE /\ epc' = "raised"
            /\ error' = KeyboardInterrupt
            /\ sigint' = sigint
  /\ UNCHANGED <<kwargs, handler, process, kbdint, kdbint, returned>>
  /\ UNCHANGED <<argsVars, dumpVars, shellVars, sdkVars, projVars,
                 binaryVars, scanVars, remoteVars>>

\* Lines 1559-1571: the command ends and its output has been read.
ProcessExits ==
  /\ epc = "running"
  /\ \E returncode \in ReturnCodes :
       process' = <<[returncode |-> <<returncode>>]>>
  /\ epc' = "exited"
  /\ UNCHANGED <<kwargs, handler, sigint, interrupted, signals, kbdint, kdbint,
                 returned, error>>
  /\ UNCHANGED <<argsVars, dumpVars, shellVars, sdkVars, projVars,
                 binaryVars, scanVars, remoteVars>>

\* Lines 1573-1585: the handler is released, and the call raises or returns.
FinishCommand ==
  /\ epc = "exited"
  /\ kbdint' = FALSE
  /\ kdbint' = IF kwargs.catch_sigint THEN <<sigint[1].called>> ELSE kdbint
  /\ LET returncode ==
           IF /\ kwargs.catch_sigint
              /\ sigint[1].called
              /\ kwargs.keyboard_interrupt_success
             THEN 0
             ELSE process[1].returncode[1]
     IN  /\ process' = <<[returncode |-> <<returncode>>]>>
         /\ IF returncode # 0 /\ ~kwargs.ignore_error
              THEN /\ error' = CommandFailedError("error", returncode)
                   /\ epc' = "raised"
                   /\ returned' = returned
              ELSE /\ returned' = <<[stdout |-> "stdout", stderr |-> "stderr",
                                     kbdint |-> kbdint']>>
                   /\ epc' = "returned"
                   /\ error' = error
  /\ IF kwargs.catch_sigint
       THEN /\ handler' = sigint[1].signal_handler
            /\ sigint' = <<[sigint[1] EXCEPT !.signal_handler = NoneValue]>>
       ELSE UNCHANGED <<handler, sigint>>
  /\ UNCHANGED <<kwargs, interrupted, signals>>
  /\ UNCHANGED <<argsVars, dumpVars, shellVars, sdkVars, projVars,
                 binaryVars, scanVars, remoteVars>>

NextExec == StartProcess \/ DeliverSigint \/ ProcessExits \/ FinishCommand

SpecExec == InitExec /\ [][NextExec]_vars

-----------------------------------------------------------------------------
(* Specification of Adb.shell_command.  out is kept as the list of its     *)
(* lines (out.splitlines()), and the string returned as the list of the    *)
(* lines joined.                                                           *)

\* Number of lines the command writes.
MaxOutLines == 2

\* Lines of the command's output: two exit statuses, an empty line and a
\* line that is no number.
OutLines == {"0", "1", "", "hello"}

\* The keyword arguments shell_command reads, each given or not.
ShellKeywordArguments ==
  UNION {[keys -> BOOLEAN] :
           keys \in SUBSET {"keyboard_interrupt_success", "display_output"}}

\* What the command handler does with the adb command.
HandlerResults ==
  [raised : BOOLEAN, out : SeqsUpTo(OutLines, MaxOutLines), kbdint : BOOLEAN]

\* The truth value of kwargs.get(key).
KwargsGet(kw, key) == key \in DOMAIN kw /\ kw[key]

\* Lines 425-439: returncode, and out_lines without the status line.
ShellStatus(kw, out_lines, kbd) ==
  IF kbd /\ KwargsGet(kw, "keyboard_interrupt_success")
    THEN [returncode |-> 0, out_lines |-> out_lines]
  ELSE IF out_lines # <<>> /\ out_lines[Len(out_lines)] \in DOMAIN IntBase10
    THEN [returncode |-> IntBase10[out_lines[Len(out_lines)]],
          out_lines |-> SubSeq(out_lines, 1, Len(out_lines) - 1)]
  ELSE [returncode |-> 1, out_lines |-> out_lines]

InitShell ==
  /\ ArgsIdle
  /\ DumpIdle
  /\ ExecIdle
  /\ SdkIdle
  /\ ProjIdle
  /\ BinaryIdle
  /\ ScanIdle
  /\ RemoteIdle
  /\ spc = "called"
  /\ shell_kwargs \in ShellKeywordArguments
  /\ handler_result \in HandlerResults
  /\ shell_returned = <<>>

\* The whole of shell_command: run_command raises, or returns and the
\* status is read from the output.
ShellCommand ==
  /\ spc = "called"
  /\ IF handler_result.raised
       THEN /\ error' = CommandFailedError("error (device)", 1)
            /\ spc' = "raised"
            /\ shell_returned' = shell_returned
       ELSE LET status == ShellStatus(shell_kwargs, handler_result.out,
                                      handler_result.kbdint)
            IN  IF /\ status.returncode # 0
                   /\ ~KwargsGet(shell_kwargs, "display_output")
                  THEN /\ error' = CommandFailedError("error",
                                                      status.returncode)
                       /\ spc' = "raised"
                       /\ shell_returned' = shell_returned
                  ELSE /\ shell_returned' =
                            <<[out |-> status.out_lines, err |-> "stderr",
                               kbdint |-> handler_result.kbdint]>>
                       /\ spc' = "returned"
                       /\ error' = error
  /\ UNCHANGED <<shell_kwargs, handler_result>>
  /\ UNCHANGED <<argsVars, dumpVars, execVars, sdkVars, projVars,
                 binaryVars, scanVars, remoteVars>>

NextShell == ShellCommand

SpecShell == InitShell /\ [][NextShell]_vars

-----------------------------------------------------------------------------
(* Specification of BuildEnvironment._find_best_android_sdk                *)
(* (buildutil/android.py).  stdout is kept as the list of its lines.       *)

\* Number of lines "android list target --compact" prints.
MaxSdkLines == 3

\* Lines of the listing: installed API levels (one of them indented), a
\* preview level and a line that names no level.
SdkLines ==
  {"android-3", "android-5", " android-7", "android-10", "android-L",
   "meaningless"}

\* The values of minsdk and of target the function is called with.
MinSdks == {1, 5, 11}

Targets == {2, 5, 7, 15}

\* line.strip()
LineStrip(line) == IF line = " android-7" THEN "android-7" ELSE line

\* l.startswith('android-')
StartsWithAndroid(l) ==
  l \in {"android-3", "android-5", "android-7", "android-10", "android-L"}

\* l.split('-')[1] for the lines that start with android-.
SplitLevel ==
  ("android-3" :> "3") @@ ("android-5" :> "5") @@ ("android-7" :> "7")
  @@ ("android-10" :> "10") @@ ("android-L" :> "L")

\* nstr.isdigit()
IsDigit(nstr) == nstr \in DOMAIN IntBase10

\* 'android-%d' % (installed)
ApiTarget ==
  (0 :> "android-0") @@ (3 :> "android-3") @@ (5 :> "android-5")
  @@ (7 :> "android-7") @@ (10 :> "android-10")

\* ConfigurationError(self.sdk_home, 'Project requires Android SDK ...')
ConfigurationError(required, found) ==
  [type |-> "ConfigurationError",
   message |-> <<"Project requires Android SDK ", required,
                 ", but only found up to ", found>>]

\* Lines 527-540: the loop over stdout.splitlines(), from the line at
\* index on; the value of installed when the loop ends.
RECURSIVE InstalledLoop(_, _, _, _)
InstalledLoop(lines, index, installed, tgt) ==
  IF index > Len(lines) THEN installed
  ELSE LET l == LineStrip(lines[index])
       IN  IF ~StartsWithAndroid(l) THEN
             InstalledLoop(lines, index + 1, installed, tgt)
           ELSE IF ~IsDigit(SplitLevel[l]) THEN
             InstalledLoop(lines, index + 1, installed, tgt)
           ELSE LET n == IntBase10[SplitLevel[l]]
                    found == IF n > installed THEN n ELSE installed
                IN  IF found = tgt THEN found
                    ELSE InstalledLoop(lines, index + 1, found, tgt)

InitSdk ==
  /\ ArgsIdle
  /\ DumpIdle
  /\ ExecIdle
  /\ ShellIdle
  /\ ProjIdle
  /\ BinaryIdle
  /\ ScanIdle
  /\ RemoteIdle
  /\ sdk_pc = "called"
  /\ sdk_stdout \in SeqsUpTo(SdkLines, MaxSdkLines)
  /\ minsdk \in MinSdks
  /\ target \in Targets
  /\ apitarget = NoneValue

\* The whole of _find_best_android_sdk.
FindBestAndroidSdk ==
  /\ sdk_pc = "called"
  /\ LET installed == InstalledLoop(sdk_stdout, 1, 0, target)
     IN  IF installed < minsdk
           THEN /\ error' = ConfigurationError(minsdk, installed)
                /\ sdk_pc' = "raised"
                /\ apitarget' = apitarget
           ELSE /\ apitarget' = ApiTarget[installed]
                /\ sdk_pc' = "returned"
                /\ error' = error
  /\ UNCHANGED <<sdk_stdout, minsdk, target>>
  /\ UNCHANGED <<argsVars, dumpVars, execVars, shellVars, projVars,
                 binaryVars, scanVars, remoteVars>>

NextSdk == FindBestAndroidSdk

SpecSdk == InitSdk /\ [][NextSdk]_vars

-----------------------------------------------------------------------------
(* Specification of BuildEnvironment.build_all and find_projects           *)
(* (buildutil/android.py).  A directory is the sequence of the names on    *)
(* its path, from the project directory down.  The tree is made up as      *)
(* os.walk goes through it: each directory yielded has any of the two      *)
(* project files and any sub-directories.  The two build methods are       *)
(* recorded, not run.                                                      *)

\* Number of directories of the tree that os.walk goes through.
MaxDirs == 4

\* _MANIFEST_FILE and _NDK_MAKEFILE
MANIFEST_FILE == "AndroidManifest.xml"

NDK_MAKEFILE == "Android.mk"

\* The project directory, and the names of sub-directories.
ProjectDirectory == <<"project">>

DirNames == {"jni", "app", "bin"}

\* Values of exclude_dirs: None and a list.
ExcludeDirs == {<<>>, <<"app">>}

\* The elements of a sequence.
Range(s) == {s[i] : i \in DOMAIN s}

\* Lines 866-868 and 820-823: the names find_projects leaves out, for the
\* default apk_output and lib_output of build_all.
Exclude(dirs) == {"apks", "libs"} \cup Range(dirs) \cup {"bin", "obj", "res"}

\* A set of names as a list, in some order.
RECURSIVE ListOf(_)
ListOf(S) ==
  IF S = {} THEN <<>>
  ELSE LET x == CHOOSE y \in S : TRUE IN <<x>> \o ListOf(S \ {x})

\* os.path.basename and os.path.dirname of a path.
Basename(p) == p[Len(p)]

Dirname(p) == SubSeq(p, 1, Len(p) - 1)

\* Lines 831-836: the directory an Android.mk found in root belongs to.
ModuleDir(root) == IF Basename(root) = "jni" THEN Dirname(root) ELSE root

InitProj ==
  /\ ArgsIdle
  /\ DumpIdle
  /\ ExecIdle
  /\ ShellIdle
  /\ SdkIdle
  /\ BinaryIdle
  /\ ScanIdle
  /\ RemoteIdle
  /\ ppc = "walk"
  /\ exclude_dirs \in ExcludeDirs
  /\ walk_queue = <<ProjectDirectory>>
  /\ walked = 0
  /\ apk_dir_set = {}
  /\ module_dir_set = {}
  /\ projects = [apk_dirs |-> {}, lib_dirs |-> {}]
  /\ lib_built = <<>>
  /\ apk_built = {}

\* One iteration of "for root, dirs, files in os.walk(project)": the
\* excluded names are taken out of dirs, which os.walk then descends into.
WalkDirectory ==
  /\ ppc = "walk"
  /\ walk_queue # <<>>
  /\ walked < MaxDirs
  /\ \E files \in SUBSET {MANIFEST_FILE, NDK_MAKEFILE},
        dirs \in SUBSET DirNames :
       LET root == Head(walk_queue)
           kept == dirs \ Exclude(exclude_dirs)
           below == ListOf({Append(root, d) : d \in kept})
       IN  /\ walked + Len(walk_queue) + Cardinality(kept) <= MaxDirs
           /\ apk_dir_set' = IF MANIFEST_FILE \in files
                               THEN apk_dir_set \cup {root}
                               ELSE apk_dir_set
           /\ module_dir_set' = IF NDK_MAKEFILE \in files
                                  THEN module_dir_set \cup {ModuleDir(root)}
                                  ELSE module_dir_set
           /\ walk_queue' = below \o Tail(walk_queue)
  /\ walked' = walked + 1
  /\ UNCHANGED <<ppc, exclude_dirs, projects, lib_built, apk_built, error>>
  /\ UNCHANGED <<argsVars, dumpVars, execVars, shellVars, sdkVars,
                 binaryVars, scanVars, remoteVars>>

\* Line 838: os.walk is over and find_projects returns.
FindProjectsReturns ==
  /\ ppc = "walk"
  /\ walk_queue = <<>>
  /\ projects' = [apk_dirs |-> apk_dir_set, lib_dirs |-> module_dir_set]
  /\ ppc' = "found"
  /\ UNCHANGED <<exclude_dirs, walk_queue, walked, apk_dir_set, module_dir_set,
                 lib_built, apk_built, error>>
  /\ UNCHANGED <<argsVars, dumpVars, execVars, shellVars, sdkVars,
                 binaryVars, scanVars, remoteVars>>

\* Lines 874-878: build_all builds what find_projects returned.
BuildProjects ==
  /\ ppc = "found"
  /\ lib_built' = Append(lib_built, projects.lib_dirs)
  /\ apk_built' = apk_built \cup projects.apk_dirs
  /\ ppc' = "built"
  /\ UNCHANGED <<exclude_dirs, walk_queue, walked, apk_dir_set, module_dir_set,
                 projects, error>>
  /\ UNCHANGED <<argsVars, dumpVars, execVars, shellVars, sdkVars,
                 binaryVars, scanVars, remoteVars>>

NextProj == WalkDirectory \/ FindProjectsReturns \/ BuildProjects

SpecProj == InitProj /\ [][NextProj]_vars

-----------------------------------------------------------------------------
(* Specification of _find_path_from_binary (buildutil/common.py).  An      *)
(* absolute path is the sequence of its components: <<>> is the root       *)
(* directory os.path.sep, <<"a", "b">> is /a/b.                            *)

\* Number of components of the path of the binary.
MaxComponents == 3

\* Names of path components.
ComponentNames == {"a", "b", "c"}

\* Paths find_executable finds the binary at.
BinaryPaths == SeqsUpTo(ComponentNames, MaxComponents) \ {<<>>}

\* Values of levels: from below zero to above the number of components.
LevelValues == (0 - 2)..(MaxComponents + 2)

\* path.split(os.path.sep) of an absolute path: the empty string that
\* precedes the first separator, then the components.
SplitPath(p) == <<"">> \o p

\* The Python slice s[0:stop].
SliceTo(s, stop) ==
  IF stop >= 0
    THEN SubSeq(s, 1, IF stop < Len(s) THEN stop ELSE Len(s))
    ELSE SubSeq(s, 1, IF Len(s) + stop > 0 THEN Len(s) + stop ELSE 0)

\* os.path.join(os.path.sep, *directories) for relative names: an empty
\* name adds nothing to the path.
JoinPath(directories) == SelectSeq(directories, LAMBDA d : d # "")

\* Lines 200-210: the value _find_path_from_binary returns when
\* find_executable returns found.
FindPathFromBinary(found, lvls) ==
  IF found # <<>>
    THEN LET directories == SplitPath(found[1])
         IN  IF lvls < Len(directories)
               THEN <<JoinPath(SliceTo(directories, 0 - lvls))>>
               ELSE <<>>
    ELSE found

InitBinary ==
  /\ ArgsIdle
  /\ DumpIdle
  /\ ExecIdle
  /\ ShellIdle
  /\ SdkIdle
  /\ ProjIdle
  /\ ScanIdle
  /\ RemoteIdle
  /\ bpc = "called"
  /\ executable \in {<<>>} \cup {<<p>> : p \in BinaryPaths}
  /\ levels \in LevelValues
  /\ parent = <<>>

\* The whole of _find_path_from_binary.
FindPath ==
  /\ bpc = "called"
  /\ parent' = FindPathFromBinary(executable, levels)
  /\ bpc' = "returned"
  /\ UNCHANGED <<executable, levels, error>>
  /\ UNCHANGED <<argsVars, dumpVars, execVars, shellVars, sdkVars, projVars,
                 scanVars, remoteVars>>

NextBinary == FindPath

SpecBinary == InitBinary /\ [][NextBinary]_vars

-----------------------------------------------------------------------------
(* Specification of process_perf_script_dump read next to a second run of  *)
(* its loop.  The first run reads every line of dump_output; the second    *)
(* reads the same lines with the non-empty lines that match none of the    *)
(* three regular expressions left out.  recent_header remembers the header *)
(* line read last before the report line of a sample.                      *)

\* The number of lines of dump_output read in this specification.
MaxScanLines == 7

ScanLines ==
  {EmptyLine, OtherLine, BadIpStackLine,
   StackLine("4004F0", "main", "(/bin/app)")}
  \cup {HeaderLine(p) : p \in {"1", "2"}}
  \cup {ReportLine(t) : t \in {"1.00", "1.03"}}

\* A non-empty line none of the three regular expressions matches.
MatchesNoPattern(line) ==
  /\ line.kind # "empty"
  /\ MatchSample(line) = <<>>
  /\ MatchReport(line) = <<>>
  /\ MatchStack(line) = <<>>

\* The header line remembered after a line is read.
RecentHeaderAfter(st, line) ==
  IF line.kind = "empty" THEN (IF st.sample # <<>> THEN <<>> ELSE recent_header)
  ELSE IF st.sample = <<>> /\ MatchSample(line) # <<>> THEN <<line>>
  ELSE recent_header

InitScan ==
  /\ ArgsIdle
  /\ dpc = "loop"
  /\ line_number = 0
  /\ shape = NoLines
  /\ samples = <<>>
  /\ sample_data = <<>>
  /\ sample = <<>>
  /\ corrected = FALSE
  /\ result = <<>>
  /\ ExecIdle
  /\ ShellIdle
  /\ SdkIdle
  /\ ProjIdle
  /\ BinaryIdle
  /\ RemoteIdle
  /\ recent_header = <<>>
  /\ filtered = LoopStart
  /\ left_out = 0

\* One iteration of "for line_number, line in enumerate(lines)"; the second
\* run makes the iteration too unless the line matches no pattern.
ScanLine ==
  /\ dpc = "loop"
  /\ line_number < MaxScanLines
  /\ \E line \in ScanLines :
       LET now == [samples |-> samples, sample_data |-> sample_data,
                   sample |-> sample, error |-> NoError]
           st == LoopBody(now, line)
       IN  /\ samples' = st.samples
           /\ sample_data' = st.sample_data
           /\ sample' = st.sample
           /\ error' = st.error
           /\ dpc' = IF st.error = NoError THEN "loop" ELSE "raised"
           /\ shape' = ShapeAfter(shape, line)
           /\ recent_header' = RecentHeaderAfter(now, line)
           /\ filtered' = IF MatchesNoPattern(line)
                            THEN filtered
                            ELSE LoopBody(filtered, line)
           /\ left_out' = IF MatchesNoPattern(line)
                            THEN left_out + 1
                            ELSE left_out
  /\ line_number' = line_number + 1
  /\ UNCHANGED <<corrected, result, argsVars, execVars, shellVars, sdkVars,
                 projVars, binaryVars, remoteVars>>

\* The loop ends, then lines 2125-2136: the period correction and the return.
ScanReturns ==
  /\ dpc = "loop"
  /\ LET r == PeriodCorrection(samples)
     IN  /\ result' = r.result
         /\ error' = r.error
         /\ dpc' = IF r.error = NoError THEN "returned" ELSE "raised"
  /\ corrected' = CorrectionApplies(samples)
  /\ UNCHANGED <<line_number, shape, samples, sample_data, sample, argsVars,
                 execVars, shellVars, sdkVars, projVars, binaryVars, scanVars,
                 remoteVars>>

NextScan == ScanLine \/ ScanReturns

SpecScan == InitScan /\ [][NextScan]_vars

-----------------------------------------------------------------------------
(* Specification of run_perf_remotely.  The main thread issues commands to *)
(* the device one at a time, each of which may fail; the CommandThread     *)
(* that runs perf on the device terminates at any moment after it is       *)
(* started; SIGINT arrives while the main thread waits for it.  The        *)
(* queries of the CPU frequency statistics, whose failures the function    *)
(* catches, are left out.                                                  *)

\* Error(message)
Error(message) == [type |-> "Error", message |-> <<message>>]

\* The argument lists of the PerfArgs instances handed to the function.
RemoteArgLists ==
  {<<"record">>, <<"record", "-o", "custom.data">>, <<"stat">>, <<"list">>,
   <<"lock", "record", "-x">>}

PackageNames == {"", "pkg"}

ActivityNames == {"", ".Main"}

\* record_time: 0 records until SIGINT.
RecordTimes == {0, 3}

RemoteCalls ==
  [package_name : PackageNames, activity_name : ActivityNames,
   call_graph_recording : BOOLEAN, timestamp_recording : BOOLEAN,
   start_application : BOOLEAN, kill_application_on_stop : BOOLEAN,
   record_time : RecordTimes]

\* '/'.join([Adb.get_package_data_directory(package_name),
\*           os.path.basename(output_filename)]) for the package pkg.
PackageFile ==
  ("" :> "/data/data/pkg/")
  @@ ("perf.data" :> "/data/data/pkg/perf.data")
  @@ ("custom.data" :> "/data/data/pkg/custom.data")

\* os.path.splitext(name)[1] == '.data' on the default output filenames.
HasDataExtension(name) == name \in {"perf.data", "custom.data"}

\* perf_recording (lines 1919-1920)
PerfRecording(pa) ==
  HasDataExtension(get_default_output_filename(pa.command, pa.sub_command))

\* A variant of Thread.join() that returns while the thread runs.
Joined_NoWait(thread) == TRUE

\* Thread.join() returns once the thread has terminated.
Joined(thread) == thread = "terminated"

\* The commands the device is sent.
PUSH == "push perf"
START_ACTIVITY == "am start"
GET_PID == "get pid"
PERF_THREAD_START == "run-as perf (CommandThread)"
RELAY_SIGINT == "kill -s SIGINT perf"
FORCE_STOP == "am force-stop"
PULL == "pull perf_data"
PERF_SHELL == "perf (shell_command)"
REMOVE == "rm -f"

\* The messages of the exceptions the function raises itself.
NO_PACKAGE_NAME ==
  "perf record commands require the specification of a package name to profile."
NO_ACTIVITY_NAME == "No activity name specified, unable to start application"

\* Whether a command issued to the device succeeds.
Outcomes == BOOLEAN

InitRemote ==
  /\ ArgsIdle
  /\ DumpIdle
  /\ ExecIdle
  /\ ShellIdle
  /\ SdkIdle
  /\ ProjIdle
  /\ BinaryIdle
  /\ ScanIdle
  /\ rpc = "called"
  /\ remote_call \in RemoteCalls
  /\ \E a \in RemoteArgLists :
       LET r == PerfArgsInit(a, FALSE)
       IN  perf_args = [args |-> r.args, command |-> r.command,
                        sub_command |-> r.sub_command]
  /\ output_file = ""
  /\ perf_data = ""
  /\ perf_thread = "none"
  /\ keyboard_interrupt = FALSE
  /\ pending = <<>>
  /\ device_log = <<>>

\* What no step of the function changes.
RemoteFrame ==
  /\ UNCHANGED remote_call
  /\ UNCHANGED <<argsVars, dumpVars, execVars, shellVars, sdkVars, projVars,
                 binaryVars, scanVars>>

\* An exception raised inside the try statement: the finally clause runs.
RaiseInTry(exception) ==
  /\ pending' = <<exception>>
  /\ rpc' = "finally"

\* Lines 1904-1907: adb_device.push_files.
PushFiles ==
  /\ rpc = "called"
  /\ \E ok \in Outcomes :
       IF ok
         THEN /\ device_log' = Append(device_log, PUSH)
              /\ rpc' = "pushed"
              /\ UNCHANGED error
         ELSE /\ error' = CommandFailedError("Unable to push", 1)
              /\ rpc' = "raised"
              /\ UNCHANGED device_log
  /\ UNCHANGED <<perf_args, output_file, perf_data, perf_thread,
                 keyboard_interrupt, pending>>
  /\ RemoteFrame

\* Lines 1909-1926: the output filename, the remote arguments and the check
\* made before the try statement.
ProcessArgs ==
  /\ rpc = "pushed"
  /\ LET c == remote_call
         out == get_output_filename(perf_args.args, perf_args.command,
                                    perf_args.sub_command, "")
         data == IF c.package_name # "" THEN PackageFile[out.ret] ELSE out.ret
         r == process_remote_args(out.args, perf_args.command,
                                  perf_args.sub_command, data,
                                  c.call_graph_recording, c.timestamp_recording)
     IN  /\ output_file' = out.ret
         /\ perf_data' = data
         /\ perf_args' = [perf_args EXCEPT !.args = r.args]
         /\ IF PerfRecording(perf_args) /\ c.package_name = ""
              THEN /\ error' = Error(NO_PACKAGE_NAME)
                   /\ rpc' = "raised"
              ELSE /\ rpc' = IF PerfRecording(perf_args) THEN "try_record"
                                                        ELSE "try_run"
                   /\ UNCHANGED error
  /\ UNCHANGED <<perf_thread, keyboard_interrupt, pending, device_log>>
  /\ RemoteFrame

\* Lines 1927-1968: the application is started or found, its process id is
\* added to the arguments and the CommandThread is started.
StartRecording ==
  /\ rpc = "try_record"
  /\ LET c == remote_call
     IN  IF c.activity_name = "" /\ c.start_application
           THEN /\ RaiseInTry(Error(NO_ACTIVITY_NAME))
                /\ UNCHANGED <<perf_args, perf_thread, device_log>>
           ELSE \E ok \in Outcomes, pid \in Pids :
                  LET issued == Append(device_log,
                                       IF c.start_application
                                         THEN START_ACTIVITY ELSE GET_PID)
                  IN  IF ok
                        THEN /\ perf_args' =
                                  [perf_args EXCEPT !.args =
                                     insert_process_option(
                                       perf_args.args, perf_args.command,
                                       perf_args.sub_command, pid)]
                             /\ perf_thread' = "running"
                             /\ device_log' = Append(issued, PERF_THREAD_START)
                             /\ rpc' = "join"
                             /\ UNCHANGED pending
                        ELSE /\ RaiseInTry(CommandFailedError(
                                             "Unable to start or find", 1))
                             /\ device_log' = issued
                             /\ UNCHANGED <<perf_args, perf_thread>>
  /\ UNCHANGED <<output_file, perf_data, keyboard_interrupt, error>>
  /\ RemoteFrame

\* CommandThread.run returns: perf on the device has exited.
PerfThreadExits ==
  /\ perf_thread = "running"
  /\ perf_thread' = "terminated"
  /\ UNCHANGED <<rpc, perf_args, output_file, perf_data,
                 keyboard_interrupt, pending, device_log, error>>
  /\ RemoteFrame

\* Lines 1970-1972: time.sleep(record_time), raise KeyboardInterrupt().
RecordTimeExpires ==
  /\ rpc = "join"
  /\ remote_call.record_time # 0
  /\ rpc' = "interrupted"
  /\ UNCHANGED <<perf_args, output_file, perf_data, perf_thread,
                 keyboard_interrupt, pending, device_log, error>>
  /\ RemoteFrame

\* Lines 1973-1975: perf_thread.join() returns.
JoinReturns ==
  /\ rpc = "join"
  /\ remote_call.record_time = 0
  /\ Joined(perf_thread)
  /\ rpc' = "pull"
  /\ UNCHANGED <<perf_args, output_file, perf_data, perf_thread,
                 keyboard_interrupt, pending, device_log, error>>
  /\ RemoteFrame

\* SIGINT arrives while the main thread sleeps or waits for the thread:
\* KeyboardInterrupt is raised there and caught at line 1976.
Interrupt ==
  /\ rpc = "join"
  /\ rpc' = "interrupted"
  /\ UNCHANGED <<perf_args, output_file, perf_data, perf_thread,
                 keyboard_interrupt, pending, device_log, error>>
  /\ RemoteFrame

\* Lines 1976-1985: the stop signal is relayed to perf on the device.
RelayStop ==
  /\ rpc = "interrupted"
  /\ keyboard_interrupt' = TRUE
  /\ device_log' = Append(device_log, RELAY_SIGINT)
  /\ \E ok \in Outcomes :
       IF ok
         THEN /\ rpc' = IF remote_call.kill_application_on_stop
                          THEN "kill_application" ELSE "join_again"
              /\ UNCHANGED pending
         ELSE RaiseInTry(CommandFailedError("Unable to stop perf", 1))
  /\ UNCHANGED <<perf_args, output_file, perf_data, perf_thread, error>>
  /\ RemoteFrame

\* Lines 1986-1988: am force-stop.
KillApplication ==
  /\ rpc = "kill_application"
  /\ device_log' = Append(device_log, FORCE_STOP)
  /\ \E ok \in Outcomes :
       IF ok
         THEN /\ rpc' = "join_again"
              /\ UNCHANGED pending
         ELSE RaiseInTry(CommandFailedError("Unable to stop package", 1))
  /\ UNCHANGED <<perf_args, output_file, perf_data, perf_thread,
                 keyboard_interrupt, error>>
  /\ RemoteFrame

\* Lines 1990-1992: perf_thread.join() after a keyboard interrupt.
JoinAfterInterrupt ==
  /\ rpc = "join_again"
  /\ Joined(perf_thread)
  /\ rpc' = "pull"
  /\ UNCHANGED <<perf_args, output_file, perf_data, perf_thread,
                 keyboard_interrupt, pending, device_log, error>>
  /\ RemoteFrame

\* SIGINT arrives during the second join: no handler catches it.
InterruptAgain ==
  /\ rpc = "join_again"
  /\ RaiseInTry(KeyboardInterrupt)
  /\ UNCHANGED <<perf_args, output_file, perf_data, perf_thread,
                 keyboard_interrupt, device_log, error>>
  /\ RemoteFrame

\* Lines 2014-2016: the output file is copied back to the host.
PullFile ==
  /\ rpc = "pull"
  /\ IF output_file # ""
       THEN /\ device_log' = Append(device_log, PULL)
            /\ \E ok \in Outcomes :
                 IF ok
                   THEN /\ rpc' = "dependencies"
                        /\ UNCHANGED pending
                   ELSE RaiseInTry(CommandFailedError("Unable to copy", 1))
       ELSE /\ rpc' = "dependencies"
            /\ UNCHANGED <<pending, device_log>>
  /\ UNCHANGED <<perf_args, output_file, perf_data, perf_thread,
                 keyboard_interrupt, error>>
  /\ RemoteFrame

\* Lines 2018-2034: the dependencies of the trace are listed on the host and
\* pulled; a failed pull is a warning, a failed listing an exception.
PullDependencies ==
  /\ rpc = "dependencies"
  /\ \E ok \in Outcomes :
       IF ok
         THEN /\ rpc' = "finally"
              /\ UNCHANGED pending
         ELSE RaiseInTry(CommandFailedError("Unable to retrieve the set", 1))
  /\ UNCHANGED <<perf_args, output_file, perf_data, perf_thread,
                 keyboard_interrupt, device_log, error>>
  /\ RemoteFrame

\* Lines 2036-2040: a command that records nothing runs in the main thread.
RunPerf ==
  /\ rpc = "try_run"
  /\ device_log' = Append(device_log, PERF_SHELL)
  /\ \E ok \in Outcomes :
       IF ok
         THEN /\ rpc' = "finally"
              /\ UNCHANGED pending
         ELSE RaiseInTry(CommandFailedError("Unable to execute perf", 1))
  /\ UNCHANGED <<perf_args, output_file, perf_data, perf_thread,
                 keyboard_interrupt, error>>
  /\ RemoteFrame

\* Lines 2042-2050: the finally clause removes the temporary files, then the
\* function returns or the exception goes on to the caller.
CleanUp ==
  /\ rpc = "finally"
  /\ device_log' = Append(device_log, REMOVE)
  /\ \E ok \in Outcomes :
       IF ~ok
         THEN /\ error' = CommandFailedError("Unable to remove files", 1)
              /\ rpc' = "raised"
       ELSE IF pending # <<>>
         THEN /\ error' = pending[1]
              /\ rpc' = "raised"
       ELSE /\ rpc' = "returned"
            /\ UNCHANGED error
  /\ UNCHANGED <<perf_args, output_file, perf_data, perf_thread,
                 keyboard_interrupt, pending>>
  /\ RemoteFrame

NextRemote ==
  \/ PushFiles
  \/ ProcessArgs
  \/ StartRecording
  \/ PerfThreadExits
  \/ RecordTimeExpires
  \/ JoinReturns
  \/ Interrupt
  \/ RelayStop
  \/ KillApplication
  \/ JoinAfterInterrupt
  \/ InterruptAgain
  \/ PullFile
  \/ PullDependencies
  \/ RunPerf
  \/ CleanUp

SpecRemote == InitRemote /\ [][NextRemote]_vars

-----------------------------------------------------------------------------
(* Claims about PerfArgs.__init__ (specification Spec).                    *)

\* The instance was built from the one-token argument list <<x>>.
BuiltFromOne == obj # "none" /\ Len(initial_args) = 1

\* C1 as stated: every single token that is no supported command name makes
\* PerfArgs.__init__ raise PerfArgs.Error with a message containing the token.
C1_EveryOtherTokenRaises ==
  (BuiltFromOne /\ initial_args[1] \notin SupportedNames)
    => /\ obj = "failed"
       /\ error.type = "PerfArgs.Error"
       /\ \E i \in DOMAIN error.message : error.message[i] = initial_args[1]

\* C1 amended: every single token that is neither a supported command name
\* nor one of -h and --help makes PerfArgs.__init__ raise PerfArgs.Error with
\* a message containing the token; -h and --help alone raise nothing and
\* resolve to the help command with the arguments ['help'].
C1_UnsupportedTokenRaises ==
  /\ (BuiltFromOne /\ initial_args[1] \notin SupportedNames \cup {"-h", "--help"})
       => /\ obj = "failed"
          /\ error.type = "PerfArgs.Error"
          /\ \E i \in DOMAIN error.message : error.message[i] = initial_args[1]
  /\ (BuiltFromOne /\ initial_args[1] \in {"-h", "--help"})
       => /\ obj = "constructed"
          /\ error = NoError
          /\ command = "help"
          /\ args = <<"help">>

C1_Witness ==
  /\ obj = "failed"
  /\ initial_args = <<"bogus">>
  /\ error = [type |-> "PerfArgs.Error",
              message |-> <<"Unsupported perf command ", "bogus">>]

\* C2: every supported command name given alone resolves to the command of
\* that name and raises nothing, whether verbose is requested or not.
C2_SupportedTokenResolves ==
  (BuiltFromOne /\ initial_args[1] \in SupportedNames)
    => /\ obj = "constructed"
       /\ error = NoError
       /\ command = initial_args[1]

C2_Witness ==
  /\ obj = "constructed"
  /\ initial_args = <<"visualize">>
  /\ verbose
  /\ command = "visualize"
  /\ error = NoError

\* The instance built from <<"help", c>> ends with the command and the
\* arguments of the instance built from <<c, "-h">> with the same verbose.
SameAsBuiltinHelp(c) ==
  (obj # "none" /\ initial_args = <<"help", c>>)
    => LET r == PerfArgsInit(<<c, "-h">>, verbose)
       IN  /\ (obj = "constructed") = (r.error = NoError)
           /\ command = r.command
           /\ args = r.args

\* C9 as stated: for every supported command name c, PerfArgs(["help", c], v)
\* and PerfArgs([c, "-h"], v) end with the same command and arguments.
C9_HelpPairEveryCommand == \A c \in SupportedNames : SameAsBuiltinHelp(c)

\* C9 amended: for every supported command name c other than help,
\* PerfArgs(["help", c], v) and PerfArgs([c, "-h"], v) end with the same
\* command and the same arguments.
C9_HelpPairRewritten == \A c \in SupportedNames \ {"help"} : SameAsBuiltinHelp(c)

C9_Witness ==
  /\ obj = "constructed"
  /\ initial_args = <<"help", "record">>
  /\ verbose
  /\ command = "record"
  /\ args = <<"record", "-h", "--verbose">>

-----------------------------------------------------------------------------
(* Claims about man_to_builtin_help (specification SpecHelp).              *)

\* The list holds a help token directly followed by another help token.
HelpFollowedByHelp(a) ==
  \E i \in 1..(Len(a) - 1) : a[i] = "help" /\ a[i + 1] = "help"

\* C10 as stated: once man_to_builtin_help has been applied, applying it
\* again leaves the arguments as they are, for every argument list.
C10_IdempotentEveryList == [][applied >= 1 => args' = args]_vars

\* C10 amended: for every argument list in which no help token is directly
\* followed by another help token, applying man_to_builtin_help to its own
\* output yields that output again.
C10_IdempotentNoHelpHelp ==
  [][(applied >= 1 /\ ~HelpFollowedByHelp(initial_args)) => args' = args]_vars

C10_Witness ==
  /\ applied = 2
  /\ initial_args = <<"help", "record", "--help">>
  /\ args = <<"record", "-h", "-h">>

-----------------------------------------------------------------------------
(* Claims about process_perf_script_dump (specification SpecDump).         *)

\* Every sample the loop collected was reported with period 1.
AllPeriodsOne == \A i \in DOMAIN samples : samples[i].period = 1

\* The sample ss[i] with its period replaced.
WithPeriod(s, period) == [s EXCEPT !.period = period]

\* C3: when the function returns n >= 2 samples that were all reported with
\* period 1, sample i < n - 1 has period time[i + 1] - time[i], the last
\* sample has the period of the one before it, and nothing else is changed.
C3_FixedFrequencyPeriods ==
  (dpc = "returned" /\ Len(samples) >= 2 /\ AllPeriodsOne)
    => /\ Len(result) = Len(samples)
       /\ \A i \in 1..(Len(samples) - 1) :
            result[i] = WithPeriod(samples[i], samples[i + 1].time - samples[i].time)
       /\ result[Len(samples)] =
            WithPeriod(samples[Len(samples)], result[Len(samples) - 1].period)

C3_Witness ==
  /\ dpc = "returned"
  /\ Len(samples) = 3
  /\ AllPeriodsOne
  /\ [i \in 1..3 |-> samples[i].time] = <<100, 101, 103>>
  /\ [i \in 1..3 |-> result[i].period] = <<1, 2, 2>>

\* C4: whenever at least one collected sample was reported with a period
\* other than 1, every returned sample keeps its reported period.
C4_NoCorrectionUnlessAllOne ==
  (dpc = "returned" /\ ~AllPeriodsOne) => (result = samples /\ ~corrected)

\* C5: when the lines yield exactly one sample, the function returns that
\* sample with its reported period and raises nothing.
C5_SingleSampleUnchanged ==
  [][(dpc = "correction" /\ Len(samples) = 1)
       => (dpc' = "returned" /\ result' = samples /\ error' = NoError)]_vars

\* The lines read are k complete well-formed blocks.
WellFormedBlocks == shape.ok /\ shape.stage = "start"

\* The sample a well-formed block stands for, its period left aside.
BlockSample(block) ==
  [PerfRecordSample(MatchSample(block[1])[1], MatchReport(block[2])[1])
     EXCEPT !.stack = [j \in 1..(Len(block) - 2) |-> StackIp(block[j + 2])]]

\* C6: for lines made of k well-formed blocks the function returns k
\* samples in the order of the blocks, sample i with the n_i stack frames of
\* block i in the order of their lines.
C6_OneSamplePerBlock ==
  (dpc \in {"returned", "raised"} /\ WellFormedBlocks)
    => /\ dpc = "returned"
       /\ Len(result) = Len(shape.blocks)
       /\ \A i \in DOMAIN shape.blocks :
            /\ Len(result[i].stack) = Len(shape.blocks[i]) - 2
            /\ WithPeriod(result[i], 0) = WithPeriod(BlockSample(shape.blocks[i]), 0)

\* C7: the sample of a block whose stack is still empty at the empty line
\* that ends it is collected with exactly the one idle frame, and every
\* sample collected or returned has a non-empty stack.
C7_IdleFrame ==
  /\ [][(dpc = "loop" /\ sample # <<>> /\ sample[1].stack = <<>>
          /\ Len(samples') = Len(samples) + 1)
         => samples'[Len(samples')].stack
              = <<[ip |-> <<65535, 65535>>, symbol |-> "[idle]",
                   dso |-> "([idle])"]>>]_vars
  /\ [](\A i \in DOMAIN samples : samples[i].stack # <<>>)
  /\ [](\A i \in DOMAIN result : result[i].stack # <<>>)

C7_Witness ==
  /\ dpc = "returned"
  /\ Len(result) = 2
  /\ result[1].stack = <<IdleIp>>
  /\ Len(result[2].stack) = 2

\* C8: lines that complete no sample make the function return the empty
\* list, without an exception and without the period correction.
C8_NoSampleReturnsEmpty ==
  (dpc \in {"returned", "raised"} /\ samples = <<>>)
    => (dpc = "returned" /\ result = <<>> /\ error = NoError /\ ~corrected)

-----------------------------------------------------------------------------
(* Claims about the methods of PerfArgs (specification SpecOps).           *)

NoOutputOption(a) == \A i \in 1..Len(a) : a[i] # "-o"

\* An -o that is followed by a value is among the arguments.
OutputOptionGiven(a) == \E i \in 1..(Len(a) - 1) : a[i] = "-o"

\* The place of the value of the first -o that is followed by one.
OutputValueIndex(a) ==
  1 + (CHOOSE i \in 1..(Len(a) - 1) :
         a[i] = "-o" /\ \A j \in 1..(i - 1) : a[j] # "-o")

\* Neither the command nor any of its sub-commands has a default output
\* file name.
NoDefaultOutput(cmd) ==
  /\ SUPPORTED_COMMANDS_DICT[cmd].output_filename = ""
  /\ \A s \in DOMAIN SUPPORTED_COMMANDS_DICT[cmd].sub_commands :
       SUPPORTED_COMMANDS_DICT[cmd].sub_commands[s].output_filename = ""

\* C12: get_output_filename(remote) on a record invocation returns
\* "perf.data" when the working arguments hold no -o and the value that
\* follows -o when they hold one; with a non-empty remote name the working
\* arguments afterwards hold the remote name as the value of -o (in the
\* place of the old value, or as an appended "-o remote" when there was no
\* -o) and are otherwise unchanged.  The same holds of the value returned
\* and of the -o value when the call is made through process_remote_args.
\* For a command without a default output file name the call returns ""
\* and leaves the working arguments unchanged.
C12_OutputFilename ==
  /\ last.op = "get_output_filename" =>
       /\ (command = "record" /\ NoOutputOption(last.before)) =>
            /\ last.ret = "perf.data"
            /\ args = IF last.inp[1] = "" THEN last.before
                      ELSE last.before \o <<"-o", last.inp[1]>>
       /\ (command = "record" /\ OutputOptionGiven(last.before)) =>
            /\ last.ret = last.before[OutputValueIndex(last.before)]
            /\ args = IF last.inp[1] = "" THEN last.before
                      ELSE [last.before EXCEPT
                              ![OutputValueIndex(last.before)] = last.inp[1]]
       /\ NoDefaultOutput(command) => (last.ret = "" /\ args = last.before)
  /\ (/\ last.op = "process_remote_args"
      /\ command = "record"
      /\ last.inp[1] # "") =>
       /\ NoOutputOption(last.before) =>
            /\ last.ret = "perf.data"
            /\ SubSeq(args, Len(args) - 1, Len(args)) = <<"-o", last.inp[1]>>
            /\ \A i \in 1..(Len(args) - 2) : args[i] # "-o"
       /\ OutputOptionGiven(last.before) =>
            /\ last.ret = last.before[OutputValueIndex(last.before)]
            /\ args[OutputValueIndex(last.before)] = last.inp[1]
            /\ Len(args) = Len(last.before)
                            + Len(RemoteOptions("record", last.inp[2],
                                                last.inp[3]))

\* get_output_filename("remote.data") on "record -o custom.data" returned
\* custom.data and left the remote name in its place.
C12_Witness ==
  /\ last.op = "get_output_filename"
  /\ last.inp = <<"remote.data">>
  /\ last.ret = "custom.data"
  /\ initial_args = <<"record", "-o", "custom.data">>
  /\ args = <<"record", "-o", "remote.data">>

C14_ProcessOption ==
  last.op = "insert_process_option" =>
    /\ (\/ command \in {"record", "stat", "top"}
        \/ (/\ command = "script"
            /\ Len(last.before) >= 2
            /\ last.before[2] = "record")) =>
         args = last.before \o <<"-p", StrOfPid[last.inp[1]]>>
    /\ (\/ command \notin {"record", "stat", "top", "script"}
        \/ (/\ command = "script"
            /\ \A i \in 1..Len(last.before) : last.before[i] # "record")) =>
         args = last.before

\* The number of --symfs tokens among the arguments.
SymfsCount(a) == Cardinality({i \in 1..Len(a) : a[i] = "--symfs"})

\* The condition under which insert_symfs_dir(dir) appends to a.
SymfsMissing(a, dir) ==
  /\ dir # ""
  /\ command \in {"annotate", "diff", "report", "script", "timechart",
                  "visualize"}
  /\ SymfsCount(a) = 0

\* C15: insert_symfs_dir(dir) appends --symfs dir exactly when dir is not
\* empty, the command is one of annotate, diff, report, script, timechart,
\* visualize and --symfs is not among the working arguments; otherwise the
\* working arguments are unchanged.  After a call the condition no longer
\* holds, so a second call with the same directory changes nothing, and no
\* call adds a --symfs to arguments that hold one.
C15_SymfsDir ==
  last.op = "insert_symfs_dir" =>
    /\ IF SymfsMissing(last.before, last.inp[1])
         THEN args = last.before \o <<"--symfs", last.inp[1]>>
         ELSE args = last.before
    /\ ~SymfsMissing(args, last.inp[1])
    /\ insert_symfs_dir(args, command, last.inp[1]) = args
    /\ SymfsCount(last.before) >= 1 =>
         SymfsCount(args) = SymfsCount(last.before)
    /\ SymfsCount(last.before) = 0 => SymfsCount(args) <= 1

\* insert_symfs_dir("syms") was called on "report", and --symfs syms is
\* there once after two method calls.
C15_Witness ==
  /\ last.op = "insert_symfs_dir"
  /\ last.inp = <<"syms">>
  /\ nops = 2
  /\ initial_args = <<"report">>
  /\ args = <<"report", "--symfs", "syms">>

-----------------------------------------------------------------------------
(* Claims about execute_command (specification SpecExec).                  *)

\* C16: when catch_sigint is enabled and SIGINT was delivered while the
\* command ran, the third element of the tuple execute_command returns
\* (kbdint) is true.
C16_KeyboardInterruptReported ==
  (epc = "returned" /\ kwargs.catch_sigint /\ interrupted)
    => returned[1].kbdint

-----------------------------------------------------------------------------
(* Claims about Adb.shell_command (specification SpecShell).               *)

\* The command failed in the device shell: the last line of the output is
\* a status other than 0, or there is no last line, or it is no number.
ShellCommandFailed ==
  \/ handler_result.out = <<>>
  \/ handler_result.out[Len(handler_result.out)] # "0"

\* A keyboard interrupt occurred and the caller asked to treat it as
\* success.
InterruptIsSuccess ==
  /\ handler_result.kbdint
  /\ "keyboard_interrupt_success" \in DOMAIN shell_kwargs
  /\ shell_kwargs["keyboard_interrupt_success"]

\* C17: shell_command raises CommandFailedError whenever the command fails
\* in the device shell, whatever the keyword arguments are, unless a
\* keyboard interrupt is treated as success.
C17_FailureRaises ==
  (spc \in {"returned", "raised"} /\ ShellCommandFailed /\ ~InterruptIsSuccess)
    => (spc = "raised" /\ error.type = "CommandFailedError")

-----------------------------------------------------------------------------
(* Claims about _find_best_android_sdk (specification SpecSdk).            *)

\* The numeric API levels the listing names, in any order.
InstalledLevels ==
  {IntBase10[SplitLevel[LineStrip(sdk_stdout[i])]] :
     i \in {j \in 1..Len(sdk_stdout) :
              /\ StartsWithAndroid(LineStrip(sdk_stdout[j]))
              /\ SplitLevel[LineStrip(sdk_stdout[j])] # "L"}}

\* The greatest element of a non-empty set of integers.
SetMax(S) == CHOOSE x \in S : \A y \in S : y <= x

\* The highest installed level not above target when there is one, the
\* highest installed level otherwise.
BestLevel ==
  IF \E n \in InstalledLevels : n <= target
    THEN SetMax({n \in InstalledLevels : n <= target})
    ELSE SetMax(InstalledLevels)

\* C18: when the listing names a numeric level, _find_best_android_sdk
\* raises ConfigurationError if the best level (the highest installed one
\* not above target, or the highest installed one when all are above
\* target; preview levels ignored; whatever the order of the lines) is
\* below minsdk, and returns "android-" followed by the best level
\* otherwise.
C18_BestInstalledSdk ==
  (sdk_pc \in {"returned", "raised"} /\ InstalledLevels # {}) =>
    IF BestLevel < minsdk
      THEN sdk_pc = "raised" /\ error.type = "ConfigurationError"
      ELSE sdk_pc = "returned" /\ apitarget = ApiTarget[BestLevel]

-----------------------------------------------------------------------------
(* Claims about find_projects and build_all (specification SpecProj).      *)

\* C19: the two lists find_projects returns are disjoint: a directory that
\* holds an AndroidManifest.xml is not among lib_dirs, so build_all hands
\* no directory both to build_android_apk and to build_android_libraries.
C19_DisjointProjects ==
  /\ ppc \in {"found", "built"} =>
       /\ projects.apk_dirs = apk_dir_set
       /\ projects.apk_dirs \cap projects.lib_dirs = {}
  /\ ppc = "built" =>
       \A i \in 1..Len(lib_built) : lib_built[i] \cap apk_built = {}

-----------------------------------------------------------------------------
(* Claims about _find_path_from_binary (specification SpecBinary).         *)

\* C20: when the binary is found at a path of d components,
\* _find_path_from_binary returns that path for levels <= 0, the path
\* without its last levels components for 1 <= levels <= d (the root
\* directory for levels = d), and None for levels > d.
C20_ParentDirectory ==
  (bpc = "returned" /\ executable # <<>>) =>
    LET path == executable[1]
        d == Len(path)
    IN  /\ levels <= 0 => parent = <<path>>
        /\ (1 <= levels /\ levels <= d) =>
             parent = <<SubSeq(path, 1, d - levels)>>
        /\ levels > d => parent = <<>>

-----------------------------------------------------------------------------
(* Claims about process_perf_script_dump read next to a filtered input     *)
(* (specification SpecScan).                                               *)

\* The fields a sample takes from the header line h.
HeaderFields(h) ==
  [file_offset |-> IntBase16Prefixed[h.file_offset],
   pid |-> IntBase10[h.pid],
   ip |-> IntBase16Prefixed[h.ip],
   period |-> IntBase10[h.period]]

\* The same fields of the sample s.
SampleHeaderFields(s) ==
  [file_offset |-> s.file_offset, pid |-> s.pid, ip |-> s.ip,
   period |-> s.period]

\* C21: when a sample-header line is followed by another sample-header line
\* with no report line in between, the sample built from the next report
\* line carries the file offset, pid, ip and period of the header line read
\* last.
C21_LastHeaderKept ==
  (dpc = "loop" /\ sample # <<>> /\ recent_header # <<>>)
    => SampleHeaderFields(sample[1]) = HeaderFields(recent_header[1])

\* C22: non-empty lines that match none of the three patterns are skipped in
\* every state of the loop: with any number of them anywhere in the input
\* the loop has the variables, and the function returns the list or raises
\* the error, it has without them.
C22_UnmatchedLinesSkipped ==
  /\ dpc = "loop" => /\ samples = filtered.samples
                     /\ sample_data = filtered.sample_data
                     /\ sample = filtered.sample
  /\ dpc = "returned" => result = PeriodCorrection(filtered.samples).result
  /\ dpc = "raised" =>
       error = IF filtered.error # NoError
                 THEN filtered.error
                 ELSE PeriodCorrection(filtered.samples).error

\* Three unmatched lines were read among the four lines of a sample, and the
\* list of that sample was returned.
C22_Witness ==
  /\ dpc = "returned"
  /\ left_out = 3
  /\ Len(result) = 1
  /\ result[1].stack = <<PerfIp(<<64, 1264>>, "main", "(/bin/app)")>>

-----------------------------------------------------------------------------
(* Claims about PerfArgs.get_sub_command (specification SpecOps).  Before  *)
(* the first method call self.args is the list get_sub_command scanned.    *)

\* Position i of a is one the scan examines as an option or as the
\* sub-command: the first after the command, the one after an option that
\* takes no value, or the second after an option that takes one.
RECURSIVE Examined(_, _, _)
Examined(a, cmd, i) ==
  \/ i = 2
  \/ /\ i - 1 >= 2
     /\ Examined(a, cmd, i - 1)
     /\ StartsWithDash(a[i - 1])
     /\ a[i - 1] \notin SUPPORTED_COMMANDS_DICT[cmd].value_options
  \/ /\ i - 2 >= 2
     /\ Examined(a, cmd, i - 2)
     /\ StartsWithDash(a[i - 2])
     /\ a[i - 2] \in SUPPORTED_COMMANDS_DICT[cmd].value_options

\* The positions of the tokens that remain: examined, and no option.
Remaining(a, cmd) ==
  {i \in 2..Len(a) : Examined(a, cmd, i) /\ ~StartsWithDash(a[i])}

\* The position of a token consumed as the value of a value-option.
ValuePositions(a, cmd) ==
  {i \in 3..Len(a) : /\ Examined(a, cmd, i - 1)
                     /\ StartsWithDash(a[i - 1])
                     /\ a[i - 1] \in SUPPORTED_COMMANDS_DICT[cmd].value_options}

\* C23: with more than two working arguments the sub-command is the first
\* remaining token, looked up in the command's sub_commands (None when it is
\* no sub-command or no token remains); the remaining tokens are never the
\* value of a value-option.
C23_SubCommandScan ==
  (obj = "constructed" /\ nops = 0 /\ Len(args) > 2) =>
    /\ Remaining(args, command) \cap ValuePositions(args, command) = {}
    /\ sub_command =
         IF Remaining(args, command) = {}
           THEN NoneValue
           ELSE DictGet(SUPPORTED_COMMANDS_DICT[command].sub_commands,
                        args[SetMin(Remaining(args, command))])

\* script --symfs record: record is the value of --symfs and no sub-command
\* is resolved.
C23_Witness ==
  /\ obj = "constructed"
  /\ nops = 0
  /\ args = <<"script", "--symfs", "record">>
  /\ ValuePositions(args, command) = {3}
  /\ sub_command = NoneValue

-----------------------------------------------------------------------------
(* Claims about what the methods of PerfArgs leave alone (specification    *)
(* SpecOps).                                                               *)

\* C24: once the instance is constructed, no call of insert_process_option,
\* insert_symfs_dir, get_output_filename or process_remote_args changes
\* initial_args (the list passed to the constructor) or the resolved
\* command; self.args is the only list they change.
C24_InitialArgsKept ==
  [][obj = "constructed" =>
       /\ initial_args' = initial_args
       /\ command' = command
       /\ obj' = obj]_vars

\* Two methods were called and both changed self.args, which now differs
\* from initial_args in more than a trailing --verbose.
C24_Witness ==
  /\ obj = "constructed"
  /\ nops = 2
  /\ ~same_list
  /\ args # last.before
  /\ Len(args) >= Len(initial_args) + 4
  /\ initial_args \in OpArgLists

-----------------------------------------------------------------------------
(* Claims about run_perf_remotely (specification SpecRemote).              *)

\* The positions of the command c in the device log.
Issued(c) == {i \in 1..Len(device_log) : device_log[i] = c}

\* Every command c was issued before every command d.
AllBefore(c, d) == \A i \in Issued(c), j \in Issued(d) : i < j

\* C25: at most one CommandThread runs perf on the device; after an
\* interrupt or the end of the record time the main thread relays the stop
\* signal through a shell command of its own and joins the thread after
\* that; on the normal and on the interrupted path the trace file is pulled
\* only once the perf thread has terminated.
C25_PullAfterThread ==
  /\ Cardinality(Issued(PERF_THREAD_START)) <= 1
  /\ perf_thread # "none" <=> Issued(PERF_THREAD_START) # {}
  /\ Issued(PULL) # {} => perf_thread = "terminated"
  /\ rpc \in {"kill_application", "join_again"} => Issued(RELAY_SIGINT) # {}
  /\ keyboard_interrupt =>
       /\ Cardinality(Issued(RELAY_SIGINT)) = 1
       /\ AllBefore(PERF_THREAD_START, RELAY_SIGINT)
       /\ AllBefore(RELAY_SIGINT, PULL)
  /\ Issued(RELAY_SIGINT) # {} => keyboard_interrupt

\* The recording was interrupted while perf ran, the stop signal was relayed
\* and the trace file was pulled after the thread terminated.
C25_Witness ==
  /\ rpc = "returned"
  /\ keyboard_interrupt
  /\ device_log = <<PUSH, GET_PID, PERF_THREAD_START, RELAY_SIGINT, PULL,
                    REMOVE>>
  /\ perf_thread = "terminated"

\* C26: with kill_application_on_stop set, a recording stopped by an
\* interrupt or by the end of the record time has the application killed
\* (am force-stop) before the stop signal is relayed to perf.
C26_KillBeforeStop ==
  (remote_call.kill_application_on_stop /\ Issued(RELAY_SIGINT) # {}) =>
    /\ \E i \in Issued(FORCE_STOP) : \A j \in Issued(RELAY_SIGINT) : i < j

\* C30: whenever the perf binary was pushed to the device, the clean-up
\* command (rm -f) is issued before the function returns or raises.
C30_CleanUpAfterPush ==
  (rpc \in {"returned", "raised"} /\ Issued(PUSH) # {}) => Issued(REMOVE) # {}

-----------------------------------------------------------------------------
(* Claims about the verbose flag and the remote output file (specification *)
(* SpecOps).                                                               *)

\* The instance PerfArgs builds from the same argument list with the other
\* value of verbose.
OtherVerbose == PerfArgsInit(initial_args, ~verbose)

\* Whether insert_process_option adds the process option to the instance
\* with the working arguments a, the command cmd and the sub-command sub.
AddsProcessOption(a, cmd, sub) ==
  \E pid \in Pids : insert_process_option(a, cmd, sub, pid) # a

\* C27: the sub-command PerfArgs resolves, and with it the results of
\* requires_remote() and insert_process_option, are the same whether
\* verbose is requested or not.
C27_VerboseIndependent ==
  (obj = "constructed" /\ nops = 0) =>
    /\ sub_command = OtherVerbose.sub_command
    /\ requires_remote(command, sub_command)
         <=> requires_remote(OtherVerbose.command, OtherVerbose.sub_command)
    /\ AddsProcessOption(args, command, sub_command)
         <=> AddsProcessOption(OtherVerbose.args, OtherVerbose.command,
                               OtherVerbose.sub_command)

\* C28: for an invocation that is a recording (requires_remote() is true and
\* the default output filename ends in .data), after
\* process_remote_args(remote_path, ...) the working arguments hold -o
\* followed by remote_path.
C28_RemoteOutputOption ==
  (/\ last.op = "process_remote_args"
   /\ last.inp[1] # ""
   /\ requires_remote(command, sub_command)
   /\ HasDataExtension(get_default_output_filename(command, sub_command)))
    => \E i \in 1..(Len(args) - 1) : /\ args[i] = "-o"
                                     /\ args[i + 1] = last.inp[1]

-----------------------------------------------------------------------------
(* Claims about the SIGINT handler of execute_command (specification       *)
(* SpecExec).                                                              *)

\* C29: when execute_command is called with catch_sigint, the SIGINT handler
\* installed before the call is installed again when the call ends, whether
\* it returns, raises CommandFailedError for the exit status or raises it
\* because the process could not be started.
C29_HandlerRestored ==
  (epc \in {"returned", "raised"} /\ kwargs.catch_sigint)
    => handler = "previous"

=============================================================================
